---- MODULE Spec2Model ----
(***************************************************************************)
(* The delinquent-tax lead scripts (deliquency-crawler): address           *)
(* decomposition and validation, the converter's run over the records of   *)
(* its input, the batch that posts leads, and the deduplication of the     *)
(* warrant entries.  Python strings are modelled as sequences of           *)
(* one-character strings, so that stripping, splitting, slicing and        *)
(* message formatting are computed character by character as the code      *)
(* computes them.                                                          *)
(***************************************************************************)
EXTENDS Integers, Sequences, FiniteSets, TLC

VARIABLES
    pc,      \* position of the record in the pipeline
    raw,     \* the free-text 'Location Address' of the record
    parts,   \* address_parts handed to validate_and_fix_address
    dec,     \* what the decomposer returned for raw
    out,     \* (fixed_parts, is_valid, error_message) of the first validation
    out2,    \* the same for a second validation of out's components
    USADDRESS_INSTALLED, \* json_to_dealmachine_csv.USADDRESS_AVAILABLE of the run
    data,            \* convert_json_to_csv: the records loaded from the input
    idx,             \* number of records (leads) the running loop has handled
    csv_rows,        \* convert_json_to_csv: accepted rows
    skipped_rows,    \* convert_json_to_csv: skipped rows
    csv_file,        \* the CSV file: NotWritten or Written(rows)
    skipped_file,    \* the skipped log: NotWritten or Written(rows)
    delinquent_taxes,  \* add_leads_to_dealmachine: the leads loaded
    max_leads,         \* its max_leads argument (an integer or None)
    leads_to_process,  \* the slice of delinquent_taxes it works through
    responses,         \* its list of result records
    success_count,     \* its counters
    error_count,
    output_file,       \* the responses file: NotWritten or Written(...)
    entries,           \* deduplicate_taxes: the input list
    deduplicated       \* deduplicate_taxes: the returned list

recordVars == <<raw, parts, dec, out, out2>>

converterVars == <<USADDRESS_INSTALLED, data, csv_rows, skipped_rows,
                   csv_file, skipped_file>>

leadsVars == <<delinquent_taxes, max_leads, leads_to_process, responses,
               success_count, error_count, output_file>>

dedupVars == <<entries, deduplicated>>

batchVars == <<idx, converterVars, leadsVars, dedupVars>>

vars == <<pc, recordVars, batchVars>>

\* A file of a run is NotWritten or Written(content)
NotWritten == <<>>

Written(content) == << content >>

ContentOf(file) == file[1]

\* An optional integer of the program (max_leads, status_code) is None or
\* Number(k)
None == <<>>

Number(k) == << k >>

ValueOf(number) == number[1]

(* The batch programs at rest, for the specifications that follow one record. *)
ConverterIdle ==
    /\ USADDRESS_INSTALLED = FALSE
    /\ data = <<>>
    /\ csv_rows = <<>>
    /\ skipped_rows = <<>>
    /\ csv_file = NotWritten
    /\ skipped_file = NotWritten

LeadsIdle ==
    /\ delinquent_taxes = <<>>
    /\ max_leads = None
    /\ leads_to_process = <<>>
    /\ responses = <<>>
    /\ success_count = 0
    /\ error_count = 0
    /\ output_file = NotWritten

DedupIdle ==
    /\ entries = <<>>
    /\ deduplicated = <<>>

BatchIdle ==
    /\ idx = 0
    /\ ConverterIdle
    /\ LeadsIdle
    /\ DedupIdle

----------------------------------------------------------------------------
(* Characters and Python's str predicates *)

Digits == {"0","1","2","3","4","5","6","7","8","9"}

Upper == {"A","B","C","D","E","F","G","H","I","J","K","L","M",
          "N","O","P","Q","R","S","T","U","V","W","X","Y","Z"}

Lower == {"a","b","c","d","e","f","g","h","i","j","k","l","m",
          "n","o","p","q","r","s","t","u","v","w","x","y","z"}

Punct == {" ", ",", ".", "/", "-", "(", ")", "*", ":", ";", "+", "_"}

Char == Digits \cup Upper \cup Lower \cup Punct

IsDigit(c) == c \in Digits

Letters == Upper \cup Lower

IsAlpha(c) == c \in Letters

IsSpace(c) == c = " "

\* the characters the regex \w matches
WordChars == Digits \cup Upper \cup Lower \cup {"_"}

IsWordChar(c) == c \in WordChars

IsStr(s) == \A i \in DOMAIN s : s[i] \in Char

HasChar(s, c) == \E i \in 1..Len(s) : s[i] = c

\* str.isdigit(): false for the empty string
AllDigits(s) == s # <<>> /\ \A i \in 1..Len(s) : IsDigit(s[i])

\* truthiness of a Python str
Truthy(s) == s # <<>>

MinOf(S) == CHOOSE x \in S : \A y \in S : x <= y

MaxOf(S) == CHOOSE x \in S : \A y \in S : y <= x

\* s[a:b] of Python for 0 <= a, written with 1-based inclusive bounds
Slice(s, a, b) == IF a > b THEN <<>> ELSE SubSeq(s, a, b)

\* str.strip()
Strip(s) ==
    LET keep == {i \in 1..Len(s) : ~IsSpace(s[i])}
    IN  IF keep = {} THEN <<>> ELSE SubSeq(s, MinOf(keep), MaxOf(keep))

\* str.split(c) for a one-character separator
RECURSIVE Split(_, _)
Split(s, c) ==
    IF ~HasChar(s, c) THEN <<s>>
    ELSE LET i == MinOf({j \in 1..Len(s) : s[j] = c})
         IN  <<Slice(s, 1, i - 1)>> \o Split(Slice(s, i + 1, Len(s)), c)

\* sep.join(list)
RECURSIVE Join(_, _)
Join(list, sep) ==
    IF list = <<>> THEN <<>>
    ELSE IF Len(list) = 1 THEN list[1]
    ELSE list[1] \o sep \o Join(Tail(list), sep)

\* sub in s
Contains(s, sub) ==
    \E i \in 1..(Len(s) - Len(sub) + 1) : SubSeq(s, i, i + Len(sub) - 1) = sub

StartsWith(s, pre) == Len(s) >= Len(pre) /\ SubSeq(s, 1, Len(pre)) = pre

----------------------------------------------------------------------------
(* String literals of the source *)

FL == <<"F","L">>

TX == <<"T","X">>

MsgInvalid4 == <<"I","n","v","a","l","i","d"," ","4","-","d","i","g","i","t"," ","z","i","p",":"," ">>

MsgMultiHyphen == <<"I","n","v","a","l","i","d"," ","z","i","p","+","4"," ","f","o","r","m","a","t"," ","(","m","u","l","t","i","p","l","e"," ","h","y","p","h","e","n","s",")",":"," ">>

MsgFirstPart == <<"I","n","v","a","l","i","d"," ","z","i","p"," ","f","o","r","m","a","t"," ","(","f","i","r","s","t"," ","p","a","r","t",")",":"," ">>

MsgSecondPart == <<"I","n","v","a","l","i","d"," ","z","i","p","+","4"," ","f","o","r","m","a","t"," ","(","s","e","c","o","n","d"," ","p","a","r","t",")",":"," ">>

MsgZipFormat == <<"I","n","v","a","l","i","d"," ","z","i","p"," ","f","o","r","m","a","t",":"," ">>

MsgProvince == <<"N","o","n","-","U","S"," ","a","d","d","r","e","s","s"," ","(","C","a","n","a","d","i","a","n"," ","p","r","o","v","i","n","c","e",":"," ">>

MsgPostal == <<"C","a","n","a","d","i","a","n","/","n","o","n","-","U","S"," ","p","o","s","t","a","l"," ","c","o","d","e",":"," ">>

MsgMissingStreet == <<"M","i","s","s","i","n","g"," ","s","t","r","e","e","t"," ","a","d","d","r","e","s","s">>

MsgMissingCity == <<"M","i","s","s","i","n","g"," ","c","i","t","y">>

MsgMissingZip == <<"M","i","s","s","i","n","g"," ","z","i","p"," ","c","o","d","e">>

ErrorSep == <<";"," ">>

CanadianProvinces ==
    { <<"O","N">>, <<"B","C">>, <<"A","B">>, <<"Q","C">>, <<"M","B">>,
      <<"S","K">>, <<"N","S">>, <<"N","B">>, <<"P","E">>, <<"N","L">>,
      <<"Y","T">>, <<"N","T">>, <<"N","U">> }

----------------------------------------------------------------------------
(* validate_and_fix_address, json_to_dealmachine_csv.py *)

\* ''.join(c for c in zip_code if c.isdigit() or c == '-')
zip_strip(zip_code) == SelectSeq(zip_code, LAMBDA c : IsDigit(c) \/ c = "-")

\* fix_zip_length with the 4-digit repair prepending "0" (the "leading zero"
\* of the source's comment) instead of "3"
fix_zip_length_leading_zero(zip_clean, state) ==
    IF Len(zip_clean) = 6 /\ ~HasChar(zip_clean, "-")
    THEN [zip_clean |-> Slice(zip_clean, 1, 5) \o <<"-">> \o Slice(zip_clean, 6, Len(zip_clean)),
          errors |-> <<>>]
    ELSE IF Len(zip_clean) = 4 /\ ~HasChar(zip_clean, "-")
    THEN IF state = FL
         THEN [zip_clean |-> <<"0">> \o zip_clean, errors |-> <<>>]
         ELSE [zip_clean |-> zip_clean, errors |-> << MsgInvalid4 \o zip_clean >>]
    ELSE [zip_clean |-> zip_clean, errors |-> <<>>]

\* fix_zip_length with the 6-digit repair putting the hyphen after the fourth
\* digit, zip_clean[:4] + '-' + zip_clean[4:]
fix_zip_length_hyphen_after_4(zip_clean, state) ==
    IF Len(zip_clean) = 6 /\ ~HasChar(zip_clean, "-")
    THEN [zip_clean |-> Slice(zip_clean, 1, 4) \o <<"-">> \o Slice(zip_clean, 5, Len(zip_clean)),
          errors |-> <<>>]
    ELSE IF Len(zip_clean) = 4 /\ ~HasChar(zip_clean, "-")
    THEN IF state = FL
         THEN [zip_clean |-> <<"3">> \o zip_clean, errors |-> <<>>]
         ELSE [zip_clean |-> zip_clean, errors |-> << MsgInvalid4 \o zip_clean >>]
    ELSE [zip_clean |-> zip_clean, errors |-> <<>>]

\* the 6-digit / 4-digit repairs; yields the repaired zip_clean and the errors
\* appended by this step
fix_zip_length(zip_clean, state) ==
    IF Len(zip_clean) = 6 /\ ~HasChar(zip_clean, "-")
    THEN [zip_clean |-> Slice(zip_clean, 1, 5) \o <<"-">> \o Slice(zip_clean, 6, Len(zip_clean)),
          errors |-> <<>>]
    ELSE IF Len(zip_clean) = 4 /\ ~HasChar(zip_clean, "-")
    THEN IF state = FL
         THEN [zip_clean |-> <<"3">> \o zip_clean, errors |-> <<>>]
         ELSE [zip_clean |-> zip_clean, errors |-> << MsgInvalid4 \o zip_clean >>]
    ELSE [zip_clean |-> zip_clean, errors |-> <<>>]

\* check_zip_format with a short second part cut to zip_clean[:4] instead of
\* zip_parts[0]
check_zip_format_cut4(zip_clean) ==
    IF HasChar(zip_clean, "-")
    THEN LET zip_parts == Split(zip_clean, "-")
         IN  IF Len(zip_parts) # 2
             THEN [zip_clean |-> zip_clean, errors |-> << MsgMultiHyphen \o zip_clean >>]
             ELSE IF Len(zip_parts[1]) # 5 \/ ~AllDigits(zip_parts[1])
             THEN [zip_clean |-> zip_clean, errors |-> << MsgFirstPart \o zip_clean >>]
             ELSE IF Truthy(zip_parts[2])
             THEN IF Len(zip_parts[2]) < 4
                  THEN [zip_clean |-> Slice(zip_clean, 1, 4), errors |-> <<>>]
                  ELSE IF Len(zip_parts[2]) # 4 \/ ~AllDigits(zip_parts[2])
                  THEN [zip_clean |-> zip_clean, errors |-> << MsgSecondPart \o zip_clean >>]
                  ELSE [zip_clean |-> zip_clean, errors |-> <<>>]
             ELSE [zip_clean |-> zip_clean, errors |-> <<>>]
    ELSE IF Len(zip_clean) # 5 \/ ~AllDigits(zip_clean)
         THEN [zip_clean |-> zip_clean, errors |-> << MsgZipFormat \o zip_clean >>]
         ELSE [zip_clean |-> zip_clean, errors |-> <<>>]

\* check_zip_format with the short-second-part test written <= 4, so that a
\* four-digit second part is dropped as well
check_zip_format_drop4(zip_clean) ==
    IF HasChar(zip_clean, "-")
    THEN LET zip_parts == Split(zip_clean, "-")
         IN  IF Len(zip_parts) # 2
             THEN [zip_clean |-> zip_clean, errors |-> << MsgMultiHyphen \o zip_clean >>]
             ELSE IF Len(zip_parts[1]) # 5 \/ ~AllDigits(zip_parts[1])
             THEN [zip_clean |-> zip_clean, errors |-> << MsgFirstPart \o zip_clean >>]
             ELSE IF Truthy(zip_parts[2])
             THEN IF Len(zip_parts[2]) <= 4
                  THEN [zip_clean |-> zip_parts[1], errors |-> <<>>]
                  ELSE IF Len(zip_parts[2]) # 4 \/ ~AllDigits(zip_parts[2])
                  THEN [zip_clean |-> zip_clean, errors |-> << MsgSecondPart \o zip_clean >>]
                  ELSE [zip_clean |-> zip_clean, errors |-> <<>>]
             ELSE [zip_clean |-> zip_clean, errors |-> <<>>]
    ELSE IF Len(zip_clean) # 5 \/ ~AllDigits(zip_clean)
         THEN [zip_clean |-> zip_clean, errors |-> << MsgZipFormat \o zip_clean >>]
         ELSE [zip_clean |-> zip_clean, errors |-> <<>>]

\* the zip+4 / 5-digit format check; yields zip_clean (possibly cut to its
\* 5-digit part) and the errors appended by this step
check_zip_format(zip_clean) ==
    IF HasChar(zip_clean, "-")
    THEN LET zip_parts == Split(zip_clean, "-")
         IN  IF Len(zip_parts) # 2
             THEN [zip_clean |-> zip_clean, errors |-> << MsgMultiHyphen \o zip_clean >>]
             ELSE IF Len(zip_parts[1]) # 5 \/ ~AllDigits(zip_parts[1])
             THEN [zip_clean |-> zip_clean, errors |-> << MsgFirstPart \o zip_clean >>]
             ELSE IF Truthy(zip_parts[2])
             THEN IF Len(zip_parts[2]) < 4
                  THEN [zip_clean |-> zip_parts[1], errors |-> <<>>]
                  ELSE IF Len(zip_parts[2]) # 4 \/ ~AllDigits(zip_parts[2])
                  THEN [zip_clean |-> zip_clean, errors |-> << MsgSecondPart \o zip_clean >>]
                  ELSE [zip_clean |-> zip_clean, errors |-> <<>>]
             ELSE [zip_clean |-> zip_clean, errors |-> <<>>]
    ELSE IF Len(zip_clean) # 5 \/ ~AllDigits(zip_clean)
         THEN [zip_clean |-> zip_clean, errors |-> << MsgZipFormat \o zip_clean >>]
         ELSE [zip_clean |-> zip_clean, errors |-> <<>>]

\* the 'if zip_code:' block: the zip after repair and the errors it recorded
fix_zip(zip_code, state) ==
    IF Truthy(zip_code)
    THEN LET a == fix_zip_length(zip_strip(zip_code), state)
             b == check_zip_format(a.zip_clean)
         IN  [zip_code |-> b.zip_clean, errors |-> a.errors \o b.errors]
    ELSE [zip_code |-> zip_code, errors |-> <<>>]

\* is_canadian_province with the three territories left out of the list
is_canadian_province_no_territories(state) ==
    state \in CanadianProvinces \ { <<"Y","T">>, <<"N","T">>, <<"N","U">> }

is_canadian_province(state) == state \in CanadianProvinces

\* zip_code and any(c.isalpha() for c in zip_code)
has_letters(zip_code) ==
    Truthy(zip_code) /\ \E i \in 1..Len(zip_code) : IsAlpha(zip_code[i])

\* county_of reading a key the caller never sets ('County'): always None
county_of_wrong_key(address_parts) ==
    IF "County" \in DOMAIN address_parts THEN Truthy(address_parts.County) ELSE FALSE

\* truthiness of address_parts.get('county'): a missing key gives None
county_of(address_parts) ==
    IF "county" \in DOMAIN address_parts THEN Truthy(address_parts.county) ELSE FALSE

\* missing_errors with the county standing in whether or not there is a
\* street, 'if address_parts.get('county'):'
missing_errors_county_always(street, city, zip_code, has_county, has_full_address) ==
    IF has_county
    THEN <<>>
    ELSE IF ~has_full_address
         THEN (IF ~Truthy(street) THEN << MsgMissingStreet >> ELSE <<>>)
              \o (IF ~Truthy(city) THEN << MsgMissingCity >> ELSE <<>>)
              \o (IF ~Truthy(zip_code) THEN << MsgMissingZip >> ELSE <<>>)
         ELSE <<>>

\* the errors appended by the 'Track what's missing' block
missing_errors(street, city, zip_code, has_county, has_full_address) ==
    IF ~Truthy(street) /\ has_county
    THEN <<>>
    ELSE IF ~has_full_address
         THEN (IF ~Truthy(street) THEN << MsgMissingStreet >> ELSE <<>>)
              \o (IF ~Truthy(city) THEN << MsgMissingCity >> ELSE <<>>)
              \o (IF ~Truthy(zip_code) THEN << MsgMissingZip >> ELSE <<>>)
         ELSE <<>>

\* is_valid_of without the 'and len(errors) == 0'
is_valid_of_ignoring_errors(has_full_address, has_county_fallback, state, errors) ==
    has_full_address \/ (has_county_fallback /\ Truthy(state))

\* truthiness of (has_full_address or (has_county_fallback and state)) and
\* len(errors) == 0
is_valid_of(has_full_address, has_county_fallback, state, errors) ==
    (has_full_address \/ (has_county_fallback /\ Truthy(state))) /\ Len(errors) = 0

\* address_parts_after_call with the repaired zip written back into the
\* caller's dict, address_parts['zip_code'] = zip_clean
address_parts_after_call_zip_written(address_parts) ==
    [address_parts EXCEPT
        !.zip_code = fix_zip(address_parts.zip_code, address_parts.state).zip_code]

\* the caller's dict once validate_and_fix_address has returned: the function
\* reads address_parts and assigns to none of its keys (zip_code = zip_clean
\* rebinds the local name)
address_parts_after_call(address_parts) == address_parts

\* address_parts['street'] ... address_parts['zip_code'] raise KeyError for a
\* key the dict does not have; 'county' is read with .get
validate_raises(address_parts) ==
    \E k \in {"street", "city", "state", "zip_code"} : k \notin DOMAIN address_parts

\* validate_and_fix_address returning, on the Canadian-province exit, the
\* repaired parts in place of address_parts
validate_and_fix_address_province_fixed(address_parts, original_address) ==
    LET street == address_parts.street
        city == address_parts.city
        state == address_parts.state
        z == fix_zip(address_parts.zip_code, state)
        zip_code == z.zip_code
    IN  IF is_canadian_province(state)
        THEN LET errors == z.errors \o << MsgProvince \o state \o <<")">> >>
             IN  [parts |-> [street |-> street, city |-> city, state |-> state,
                             zip_code |-> zip_code],
                  is_valid |-> FALSE,
                  errors |-> errors, error_message |-> Join(errors, ErrorSep)]
        ELSE IF has_letters(zip_code)
        THEN LET errors == z.errors \o << MsgPostal \o zip_code >>
             IN  [parts |-> address_parts, is_valid |-> FALSE,
                  errors |-> errors, error_message |-> Join(errors, ErrorSep)]
        ELSE LET has_full_address ==
                     Truthy(street) /\ Truthy(city) /\ Truthy(state) /\ Truthy(zip_code)
                 has_county_fallback ==
                     county_of(address_parts) /\ Truthy(state) /\ Truthy(zip_code)
                 errors == z.errors \o missing_errors(street, city, zip_code,
                                                      county_of(address_parts),
                                                      has_full_address)
                 fixed_parts == [street |-> street, city |-> city,
                                 state |-> state, zip_code |-> zip_code]
             IN  [parts |-> fixed_parts,
                  is_valid |-> is_valid_of(has_full_address, has_county_fallback,
                                           state, errors),
                  errors |-> errors, error_message |-> Join(errors, ErrorSep)]

\* The returned tuple (parts, is_valid, error_message); errors is the list the
\* message was joined from.  is_valid is the truthiness of the returned value,
\* which is what the caller tests.
validate_and_fix_address(address_parts, original_address) ==
    LET street == address_parts.street
        city == address_parts.city
        state == address_parts.state
        z == fix_zip(address_parts.zip_code, state)
        zip_code == z.zip_code
    IN  IF is_canadian_province(state)
        THEN LET errors == z.errors \o << MsgProvince \o state \o <<")">> >>
             IN  [parts |-> address_parts, is_valid |-> FALSE,
                  errors |-> errors, error_message |-> Join(errors, ErrorSep)]
        ELSE IF has_letters(zip_code)
        THEN LET errors == z.errors \o << MsgPostal \o zip_code >>
             IN  [parts |-> address_parts, is_valid |-> FALSE,
                  errors |-> errors, error_message |-> Join(errors, ErrorSep)]
        ELSE LET has_full_address ==
                     Truthy(street) /\ Truthy(city) /\ Truthy(state) /\ Truthy(zip_code)
                 has_county_fallback ==
                     county_of(address_parts) /\ Truthy(state) /\ Truthy(zip_code)
                 errors == z.errors \o missing_errors(street, city, zip_code,
                                                      county_of(address_parts),
                                                      has_full_address)
                 fixed_parts == [street |-> street, city |-> city,
                                 state |-> state, zip_code |-> zip_code]
             IN  [parts |-> fixed_parts,
                  is_valid |-> is_valid_of(has_full_address, has_county_fallback,
                                           state, errors),
                  errors |-> errors, error_message |-> Join(errors, ErrorSep)]

----------------------------------------------------------------------------
(* Python's str and re operations used by the two decomposers *)

UpperSeq == <<"A","B","C","D","E","F","G","H","I","J","K","L","M",
              "N","O","P","Q","R","S","T","U","V","W","X","Y","Z">>

LowerSeq == <<"a","b","c","d","e","f","g","h","i","j","k","l","m",
              "n","o","p","q","r","s","t","u","v","w","x","y","z">>

\* str.upper()
ToUpper(s) ==
    [i \in 1..Len(s) |->
        IF s[i] \in Lower
        THEN UpperSeq[CHOOSE k \in 1..26 : LowerSeq[k] = s[i]]
        ELSE s[i]]

\* str.replace left out: the string is returned as it was
Replace_none(s, a, b) == s

\* str.replace(a, b) for one-character a and b
Replace(s, a, b) == [i \in 1..Len(s) |-> IF s[i] = a THEN b ELSE s[i]]

\* re.sub(r'\s+', ' ', s): every run of whitespace becomes one space
CollapseSpaces(s) ==
    LET keep == {i \in 1..Len(s) : ~(IsSpace(s[i]) /\ i > 1 /\ IsSpace(s[i - 1]))}
        pick[i \in 0..Len(s)] ==
            IF i = 0 THEN <<>>
            ELSE IF i \in keep
                 THEN Append(pick[i - 1], IF IsSpace(s[i]) THEN " " ELSE s[i])
                 ELSE pick[i - 1]
    IN  pick[Len(s)]

\* str.rstrip('.')
RStripDots(s) ==
    LET keep == {i \in 1..Len(s) : s[i] # "."}
    IN  IF keep = {} THEN <<>> ELSE SubSeq(s, 1, MaxOf(keep))

\* str.split(): the maximal runs of non-whitespace
RECURSIVE Words(_)
Words(s) ==
    LET t == Strip(s)
    IN  IF t = <<>> THEN <<>>
        ELSE LET sp == {i \in 1..Len(t) : IsSpace(t[i])}
                 e == IF sp = {} THEN Len(t) ELSE MinOf(sp) - 1
             IN  <<Slice(t, 1, e)>> \o Words(Slice(t, e + 1, Len(t)))

\* str.split(c, 1) when c occurs in s
SplitOnce(s, c) ==
    LET i == MinOf({j \in 1..Len(s) : s[j] = c})
    IN  << Slice(s, 1, i - 1), Slice(s, i + 1, Len(s)) >>

\* the regex \b before the character at index i (1..Len(s)+1)
Boundary(s, i) ==
    LET before == i > 1 /\ IsWordChar(s[i - 1])
        after == i <= Len(s) /\ IsWordChar(s[i])
    IN  before # after

DigitsAt(s, i, n) == i + n - 1 <= Len(s) /\ \A k \in i..(i + n - 1) : IsDigit(s[k])

\* -\d{4} at index i
Plus4At(s, i) == i <= Len(s) /\ s[i] = "-" /\ DigitsAt(s, i + 1, 4)

\* \s*$ from index i on
SpacesToEnd(s, i) == \A k \in i..Len(s) : IsSpace(s[k])

\* \s*[,.]?\s*$ from index i on
PunctToEnd(s, i) ==
    /\ \A k \in i..Len(s) : IsSpace(s[k]) \/ s[k] \in {",", "."}
    /\ Cardinality({k \in i..Len(s) : s[k] \in {",", "."}}) <= 1

NoMatch == [found |-> FALSE, start |-> 0, end |-> 0]

\* the leftmost match among the candidates: start of the match and the
\* span of group 1
Leftmost(cands) ==
    IF cands = {} THEN NoMatch
    ELSE LET i == MinOf({c[1] : c \in cands})
         IN  [found |-> TRUE, start |-> i,
              end |-> MaxOf({c[2] : c \in {d \in cands : d[1] = i}})]

\* candidate matches <<start, end of group 1>> of a token of n or m characters
Candidates(s, n, m) ==
    {<<i, i + n - 1>> : i \in 1..Len(s)} \cup {<<i, i + m - 1>> : i \in 1..Len(s)}

\* re.search(r'\b(\d{5}(?:-\d{4})?)\b', s)
zip_search_anywhere(s) ==
    Leftmost({ c \in Candidates(s, 5, 10) :
                  /\ Boundary(s, c[1]) /\ DigitsAt(s, c[1], 5)
                  /\ \/ c[2] = c[1] + 9 /\ Plus4At(s, c[1] + 5) /\ Boundary(s, c[1] + 10)
                     \/ c[2] = c[1] + 4 /\ Boundary(s, c[1] + 5) })

\* re.search(r'\b(\d{5}(?:-\d{4})?)\s*$', s)
zip_search_at_end(s) ==
    Leftmost({ c \in Candidates(s, 5, 10) :
                  /\ Boundary(s, c[1]) /\ DigitsAt(s, c[1], 5)
                  /\ \/ c[2] = c[1] + 9 /\ Plus4At(s, c[1] + 5) /\ SpacesToEnd(s, c[1] + 10)
                     \/ c[2] = c[1] + 4 /\ SpacesToEnd(s, c[1] + 5) })

\* state_search_punct with the \b of the pattern left out
state_search_punct_no_boundary(s) ==
    Leftmost({ c \in Candidates(s, 2, 2) :
                  /\ c[2] <= Len(s)
                  /\ s[c[1]] \in Upper /\ s[c[2]] \in Upper
                  /\ PunctToEnd(s, c[1] + 2) })

\* re.search(r'\b([A-Z]{2})\s*[,.]?\s*$', s)
state_search_punct(s) ==
    Leftmost({ c \in Candidates(s, 2, 2) :
                  /\ c[2] <= Len(s)
                  /\ Boundary(s, c[1]) /\ s[c[1]] \in Upper /\ s[c[2]] \in Upper
                  /\ PunctToEnd(s, c[1] + 2) })

\* re.search(r'\b([A-Z]{2})\s*$', s)
state_search_at_end(s) ==
    Leftmost({ c \in Candidates(s, 2, 2) :
                  /\ c[2] <= Len(s)
                  /\ Boundary(s, c[1]) /\ s[c[1]] \in Upper /\ s[c[2]] \in Upper
                  /\ SpacesToEnd(s, c[1] + 2) })

\* match.group(1) if match else default
group1(s, m, default) == IF m.found THEN Slice(s, m.start, m.end) ELSE default

\* re.sub(r'[,.]+\s*$', '', s): the match, if any, is the run of commas and
\* periods that ends at the last character that is not whitespace
strip_trailing_punct(s) ==
    LET last == {i \in 1..Len(s) : ~IsSpace(s[i])}
        e == IF last = {} THEN 0 ELSE MaxOf(last)
        other == {i \in 1..e : s[i] \notin {",", "."}}
        b == IF other = {} THEN 1 ELSE MaxOf(other) + 1
    IN  IF e = 0 \/ s[e] \notin {",", "."} THEN s ELSE Slice(s, 1, b - 1)

\* re.sub(r'[,.()*]', '', s).strip()
clean_field(s) ==
    Strip(SelectSeq(s, LAMBDA c : c \notin {",", ".", "(", ")", "*"}))

----------------------------------------------------------------------------
(* parse_address_regex, json_to_dealmachine_csv.py *)

\* match_guard dropped: match.start() is called whether or not there is a match
match_guard_always(m) == TRUE

\* 'if zip_match:' guards zip_match.start(); 'if state_match:' state_match.start()
match_guard(m) == m.found

\* the street / city split on commas
split_street_city(address_without_state) ==
    IF HasChar(address_without_state, ",")
    THEN LET pieces == Split(address_without_state, ",")
             stripped == [i \in 1..Len(pieces) |-> Strip(pieces[i])]
             ps == SelectSeq(stripped, LAMBDA x : Truthy(x))
         IN  IF Len(ps) >= 2
             THEN [street |-> Join(SubSeq(ps, 1, Len(ps) - 1), <<" ">>),
                   city |-> ps[Len(ps)]]
             ELSE [street |-> IF ps # <<>> THEN ps[1] ELSE <<>>, city |-> <<>>]
    ELSE [street |-> address_without_state, city |-> <<>>]

\* raised: an exception left the function (match.start() on None); the
\* function has no try/except
parse_address_regex(location_address) ==
    IF ~Truthy(location_address)
    THEN [raised |-> FALSE, street |-> <<>>, city |-> <<>>, state |-> <<>>,
          zip_code |-> <<>>]
    ELSE LET address == CollapseSpaces(Replace(Strip(location_address), "/", ","))
             zip_match == zip_search_anywhere(address)
             zip_code == group1(address, zip_match, <<>>)
             address_without_zip ==
                 IF match_guard(zip_match)
                 THEN Strip(Slice(address, 1, zip_match.start - 1))
                 ELSE address
             state_match == state_search_punct(address_without_zip)
             state == group1(address_without_zip, state_match, FL)
             address_without_state ==
                 IF match_guard(state_match)
                 THEN Strip(Slice(address_without_zip, 1, state_match.start - 1))
                 ELSE address_without_zip
             sc == split_street_city(Strip(strip_trailing_punct(address_without_state)))
         IN  IF \/ match_guard(zip_match) /\ ~zip_match.found
                \/ match_guard(state_match) /\ ~state_match.found
             THEN [raised |-> TRUE, street |-> <<>>, city |-> <<>>,
                   state |-> <<>>, zip_code |-> <<>>]
             ELSE [raised |-> FALSE, street |-> clean_field(sc.street),
                   city |-> clean_field(sc.city), state |-> state,
                   zip_code |-> zip_code]

----------------------------------------------------------------------------
(* parse_address_with_usaddress and parse_address, json_to_dealmachine_csv.py.
   usaddress is an external library: what usaddress.tag does with an address
   is an input of the model, either an exception or a mapping from labels to
   strings. *)

\* the labels whose values make up the street, in the order of the loop
StreetComponents ==
    << "AddressNumber", "StreetNamePreDirectional", "StreetNamePreModifier",
       "StreetName", "StreetNamePostType", "StreetNamePostDirectional",
       "SubaddressType", "SubaddressIdentifier", "OccupancyType",
       "OccupancyIdentifier" >>

\* parsed.get(key, default)
get(parsed, key, default) == IF key \in DOMAIN parsed THEN parsed[key] ELSE default

\* ' '.join(street_parts).strip() for the components found in parsed
street_of(parsed) ==
    LET present == SelectSeq(StreetComponents, LAMBDA c : c \in DOMAIN parsed)
    IN  Strip(Join([i \in 1..Len(present) |-> parsed[present[i]]], <<" ">>))

\* the body of the try block once usaddress.tag has returned parsed
tagged_parts(parsed) ==
    LET city0 == get(parsed, "PlaceName", <<>>)
        state0 == get(parsed, "StateName", FL)
        zip0 == get(parsed, "ZipCode", <<>>)
        long_state == Truthy(state0) /\ Len(state0) > 2
        city == IF long_state
                THEN IF Truthy(city0) THEN city0 \o <<" ">> \o state0 ELSE state0
                ELSE city0
        state == IF long_state THEN FL ELSE state0
    IN  [raised |-> FALSE,
         street |-> clean_field(street_of(parsed)),
         city |-> clean_field(city),
         state |-> clean_field(state),
         zip_code |-> IF Truthy(zip0) THEN clean_field(zip0) ELSE <<>>]

\* parse_address_with_usaddress whose except branch returns the empty parts
\* instead of calling parse_address_regex
parse_address_with_usaddress_no_fallback(location_address, tagger) ==
    IF ~Truthy(location_address) \/ tagger.raises
    THEN [raised |-> FALSE, street |-> <<>>, city |-> <<>>, state |-> <<>>,
          zip_code |-> <<>>]
    ELSE tagged_parts(tagger.parsed)

\* tagger: what usaddress.tag does, [raises |-> TRUE] for an exception inside
\* the try block, else the mapping it returns
parse_address_with_usaddress(location_address, tagger) ==
    IF ~Truthy(location_address)
    THEN [raised |-> FALSE, street |-> <<>>, city |-> <<>>, state |-> <<>>,
          zip_code |-> <<>>]
    ELSE IF tagger.raises
    THEN parse_address_regex(location_address)
    ELSE tagged_parts(tagger.parsed)

\* parse_address of json_to_dealmachine_csv.py, the name parse_address being
\* taken by the function of add_leads_to_dealmachine.py
converter_parse_address(location_address, USADDRESS_AVAILABLE, tagger) ==
    IF USADDRESS_AVAILABLE
    THEN parse_address_with_usaddress(location_address, tagger)
    ELSE parse_address_regex(location_address)

----------------------------------------------------------------------------
(* parse_address, add_leads_to_dealmachine.py *)

street_indicators ==
    { <<"S","T">>,
      <<"S","T","R","E","E","T">>,
      <<"A","V","E">>,
      <<"A","V","E","N","U","E">>,
      <<"R","O","A","D">>,
      <<"R","D">>,
      <<"B","L","V","D">>,
      <<"B","O","U","L","E","V","A","R","D">>,
      <<"L","A","N","E">>,
      <<"L","N">>,
      <<"D","R">>,
      <<"D","R","I","V","E">>,
      <<"C","T">>,
      <<"C","O","U","R","T">>,
      <<"W","A","Y">>,
      <<"P","L">>,
      <<"P","L","A","C","E">>,
      <<"P","K","W","Y">>,
      <<"P","A","R","K","W","A","Y">>,
      <<"C","I","R">>,
      <<"C","I","R","C","L","E">>,
      <<"T","E","R">>,
      <<"T","E","R","R","A","C","E">>,
      <<"H","W","Y">>,
      <<"H","I","G","H","W","A","Y">> }

\* split_by_indicator with the fallback taking two words as the city from
\* three words on, len(words) > 2
split_by_indicator_two_of_three(address_without_state) ==
    LET words == Words(address_without_state)
        hits == {i \in 1..Len(words) :
                    ToUpper(RStripDots(words[i])) \in street_indicators}
        found == hits # {}
        street_end_idx == IF found THEN MinOf(hits) ELSE 0
    IN  IF found /\ street_end_idx < Len(words)
        THEN [address |-> Join(SubSeq(words, 1, street_end_idx), <<" ">>),
              city |-> Join(SubSeq(words, street_end_idx + 1, Len(words)), <<" ">>)]
        ELSE IF Len(words) > 2
        THEN [address |-> Join(SubSeq(words, 1, Len(words) - 2), <<" ">>),
              city |-> Join(SubSeq(words, Len(words) - 1, Len(words)), <<" ">>)]
        ELSE IF Len(words) > 1
        THEN [address |-> Join(SubSeq(words, 1, Len(words) - 1), <<" ">>),
              city |-> words[Len(words)]]
        ELSE [address |-> address_without_state, city |-> <<>>]

\* the 'No comma or slash' branch: split at the first street indicator, else
\* take the last one or two words as the city
split_by_indicator(address_without_state) ==
    LET words == Words(address_without_state)
        hits == {i \in 1..Len(words) :
                    ToUpper(RStripDots(words[i])) \in street_indicators}
        found == hits # {}
        street_end_idx == IF found THEN MinOf(hits) ELSE 0
    IN  IF found /\ street_end_idx < Len(words)
        THEN [address |-> Join(SubSeq(words, 1, street_end_idx), <<" ">>),
              city |-> Join(SubSeq(words, street_end_idx + 1, Len(words)), <<" ">>)]
        ELSE IF Len(words) > 3
        THEN [address |-> Join(SubSeq(words, 1, Len(words) - 2), <<" ">>),
              city |-> Join(SubSeq(words, Len(words) - 1, Len(words)), <<" ">>)]
        ELSE IF Len(words) > 1
        THEN [address |-> Join(SubSeq(words, 1, Len(words) - 1), <<" ">>),
              city |-> words[Len(words)]]
        ELSE [address |-> address_without_state, city |-> <<>>]

\* split_address_city splitting at the last comma, as rsplit(',', 1) would
split_address_city_last_comma(address_without_state) ==
    IF HasChar(address_without_state, ",")
    THEN LET i == MaxOf({j \in 1..Len(address_without_state) : address_without_state[j] = ","})
         IN  [address |-> Strip(Slice(address_without_state, 1, i - 1)),
              city |-> Strip(Slice(address_without_state, i + 1, Len(address_without_state)))]
    ELSE IF HasChar(address_without_state, "/")
    THEN LET ps == SplitOnce(address_without_state, "/")
         IN  [address |-> Strip(ps[1]), city |-> Strip(ps[2])]
    ELSE split_by_indicator(address_without_state)

\* the street / city split of the 'if state and zip_code:' branch
split_address_city(address_without_state) ==
    IF HasChar(address_without_state, ",")
    THEN LET ps == SplitOnce(address_without_state, ",")
         IN  [address |-> Strip(ps[1]), city |-> Strip(ps[2])]
    ELSE IF HasChar(address_without_state, "/")
    THEN LET ps == SplitOnce(address_without_state, "/")
         IN  [address |-> Strip(ps[1]), city |-> Strip(ps[2])]
    ELSE split_by_indicator(address_without_state)

\* what both 'return full address' exits give
unparsed(address_string) ==
    [raised |-> FALSE, address |-> address_string, city |-> <<>>,
     state |-> <<>>, zip |-> <<>>]

\* The whole body runs in try/except Exception: an exception gives the
\* unparsed record, so raised is never TRUE.
parse_address(address_string) ==
    LET zip_match == zip_search_at_end(address_string)
        zip_code == group1(address_string, zip_match, <<>>)
        address_without_zip ==
            IF Truthy(zip_code)
            THEN Strip(Slice(address_string, 1, zip_match.start - 1))
            ELSE address_string
        state_match == state_search_at_end(address_without_zip)
        state == group1(address_without_zip, state_match, <<>>)
        address_without_state ==
            IF Truthy(state)
            THEN Strip(Slice(address_without_zip, 1, state_match.start - 1))
            ELSE address_without_zip
    IN  IF \/ Truthy(zip_code) /\ ~zip_match.found
           \/ Truthy(state) /\ ~state_match.found
        THEN unparsed(address_string)
        ELSE IF Truthy(state) /\ Truthy(zip_code)
        THEN LET sc == split_address_city(address_without_state)
             IN  [raised |-> FALSE, address |-> sc.address, city |-> sc.city,
                  state |-> state, zip |-> zip_code]
        ELSE unparsed(address_string)

----------------------------------------------------------------------------
(* Inputs of the validator *)

MaxZipLen == 6

MaxPlus4 == 5

ZipChars == {"5", "-", "K"}

\* every string over A of length at most n
RECURSIVE StringsUpTo(_, _)
StringsUpTo(A, n) ==
    IF n = 0 THEN {<<>>}
    ELSE LET S == StringsUpTo(A, n - 1)
         IN  S \cup {Append(s, c) : s \in {t \in S : Len(t) = n - 1}, c \in A}

Repeat(c, n) == [i \in 1..n |-> c]

\* a 5-digit part, a hyphen and a second part of 0..MaxPlus4 digits
LongZips == {Repeat("5", 5) \o <<"-">> \o Repeat("5", k) : k \in 0..MaxPlus4}

ExampleZips ==
    { <<"3","3","4","0","5">>, <<"3","2","6","0","7">>, <<"5","6","7","8">>,
      <<"3","3","6","0","5","1">>, <<"K","1","A"," ","0","B","1">>,
      <<"3","3","7","7","7","-","1","5","0","0">> }

ZipInputs == StringsUpTo(ZipChars, MaxZipLen) \cup LongZips \cup ExampleZips

StreetInputs == { <<>>, <<"1"," ","A"," ","S","T">> }

CityInputs == { <<>>, <<"B","O","C","A">> }

CountyInputs == { <<>>, <<"D","U","V","A","L">> }

ProvinceInputs ==
    { <<"O","N">>, <<"B","C">>, <<"A","B">>, <<"Q","C">>, <<"M","B">>,
      <<"S","K">>, <<"N","S">>, <<"N","B">>, <<"P","E">>, <<"N","L">>,
      <<"Y","T">>, <<"N","T">>, <<"N","U">> }

StateInputs == { <<>>, FL, TX, <<"O","N">> }

PartsOf(streets, cities, states, zips, counties) ==
    [street : streets, city : cities, state : states, zip_code : zips,
     county : counties]

\* every state of StateInputs with every zip; the other provinces with the
\* example zips
ValidateInputs ==
    PartsOf(StreetInputs, CityInputs, StateInputs, ZipInputs, CountyInputs)
    \cup PartsOf(StreetInputs, CityInputs, ProvinceInputs,
                 ExampleZips \cup {<<>>}, CountyInputs)

NoParts == [street |-> <<>>, city |-> <<>>, state |-> <<>>, zip_code |-> <<>>]

NoOut == [parts |-> NoParts, is_valid |-> FALSE, errors |-> <<>>,
          error_message |-> <<>>]

NoDec == [raised |-> FALSE, street |-> <<>>, city |-> <<>>, state |-> <<>>,
          zip_code |-> <<>>]

----------------------------------------------------------------------------
(* The validator applied to one record, and applied again to what it returned *)

Init ==
    /\ pc = "start"
    /\ raw = <<>>
    /\ parts \in ValidateInputs
    /\ dec = NoDec
    /\ out = NoOut
    /\ out2 = NoOut
    /\ BatchIdle

\* fixed_parts, is_valid, error_msg = validate_and_fix_address(address_parts, ...)
Validate ==
    /\ pc = "start"
    /\ IF validate_raises(parts)
       THEN pc' = "crashed" /\ UNCHANGED <<parts, out>>
       ELSE /\ out' = validate_and_fix_address(parts, raw)
            /\ parts' = address_parts_after_call(parts)
            /\ pc' = "validated"
    /\ UNCHANGED <<raw, dec, out2>>
    /\ UNCHANGED batchVars

\* validate_and_fix_address applied to the returned components as they are
Revalidate ==
    /\ pc = "validated"
    /\ out2' = validate_and_fix_address(out.parts, raw)
    /\ pc' = "again"
    /\ UNCHANGED <<raw, parts, dec, out>>
    /\ UNCHANGED batchVars

\* the same with the record's county put back, as the caller does before the
\* first call
RevalidateWithCounty ==
    /\ pc = "validated"
    /\ out2' = validate_and_fix_address(
                   [street |-> out.parts.street, city |-> out.parts.city,
                    state |-> out.parts.state, zip_code |-> out.parts.zip_code,
                    county |-> parts.county], raw)
    /\ pc' = "again_county"
    /\ UNCHANGED <<raw, parts, dec, out>>
    /\ UNCHANGED batchVars

Next == Validate \/ Revalidate \/ RevalidateWithCounty

Spec == Init /\ [][Next]_vars

----------------------------------------------------------------------------
(* Properties of the validator, checked under Spec *)

WordCanadian == <<"C","a","n","a","d","i","a","n">>

WordPostal == <<"n","o","n","-","U","S"," ","p","o","s","t","a","l"," ","c","o","d","e">>

WordMissing == <<"M","i","s","s","i","n","g">>

MsgMissingState == <<"M","i","s","s","i","n","g"," ","s","t","a","t","e">>

Count(list, e) == Cardinality({i \in 1..Len(list) : list[i] = e})

IsZipReason(e) ==
    \/ StartsWith(e, MsgInvalid4)
    \/ StartsWith(e, MsgMultiHyphen)
    \/ StartsWith(e, MsgFirstPart)
    \/ StartsWith(e, MsgSecondPart)
    \/ StartsWith(e, MsgZipFormat)

FiveDigits(z) == Len(z) = 5 /\ AllDigits(z)

\* C3: validate reports is_valid only if no reason was recorded and either
\* street, city, state and zip are all non-empty or county, state and zip are
\* all non-empty; any recorded reason, an empty state or an empty zip forces
\* is_valid to be false.
C3_ValidOnlyIfSufficient ==
    pc = "validated" =>
        /\ out.is_valid =>
              /\ out.errors = <<>>
              /\ out.error_message = <<>>
              /\ \/ /\ Truthy(parts.street) /\ Truthy(parts.city)
                    /\ Truthy(parts.state) /\ Truthy(parts.zip_code)
                 \/ /\ Truthy(parts.county)
                    /\ Truthy(parts.state) /\ Truthy(parts.zip_code)
              /\ Truthy(out.parts.state) /\ Truthy(out.parts.zip_code)
        /\ (out.errors # <<>> \/ ~Truthy(parts.state) \/ ~Truthy(parts.zip_code))
              => ~out.is_valid

\* C3 witness: a record accepted through the county path after a zip repair
C3_Witness ==
    /\ pc = "validated"
    /\ out.is_valid
    /\ parts.street = <<>>
    /\ Truthy(parts.county)
    /\ out.parts.zip_code # parts.zip_code

\* C4: every record validate rejects carries a non-empty reason string: never
\* is_valid false together with an empty error message.
C4_RejectedHasReason ==
    (pc = "validated" /\ ~out.is_valid) =>
        (out.errors # <<>> /\ out.error_message # <<>>)

\* C5: when the full-address path is attempted (no county standing in for an
\* empty street, no province short-circuit) and a required field is empty,
\* exactly one "Missing <field>" reason is recorded for each empty field among
\* street, city, state and zip.
C5_MissingReasonPerField ==
    (/\ pc = "validated"
     /\ parts.state \notin ProvinceInputs
     /\ ~(parts.street = <<>> /\ Truthy(parts.county))) =>
        /\ parts.street = <<>> => Count(out.errors, MsgMissingStreet) = 1
        /\ parts.city = <<>> => Count(out.errors, MsgMissingCity) = 1
        /\ parts.state = <<>> => Count(out.errors, MsgMissingState) = 1
        /\ out.parts.zip_code = <<>> => Count(out.errors, MsgMissingZip) = 1

\* C6: a zip holding a letter, with a state that is no Canadian province, is
\* rejected with a "non-US postal code" reason.
C6_LetterZipRejected ==
    (/\ pc = "validated"
     /\ \E i \in 1..Len(parts.zip_code) : IsAlpha(parts.zip_code[i])
     /\ parts.state \notin ProvinceInputs) =>
        /\ ~out.is_valid
        /\ \E i \in 1..Len(out.errors) : Contains(out.errors[i], WordPostal)

\* C7 as stated: a valid outcome's components, validated again as returned,
\* come back unchanged, valid and without reasons.
C7_Idempotent ==
    (pc = "again" /\ out.is_valid) =>
        /\ out2.parts = out.parts
        /\ out2.is_valid
        /\ out2.errors = <<>>

\* C7 amended: the same holds when the county hint is handed over again with
\* the components, and without it when street and city are both non-empty.
C7_IdempotentWithCounty ==
    /\ (pc = "again_county" /\ out.is_valid) =>
          /\ out2.parts = out.parts
          /\ out2.is_valid
          /\ out2.errors = <<>>
          /\ out2.error_message = <<>>
    /\ (/\ pc = "again" /\ out.is_valid
        /\ Truthy(out.parts.street) /\ Truthy(out.parts.city)) =>
          /\ out2.parts = out.parts
          /\ out2.is_valid
          /\ out2.errors = <<>>
          /\ out2.error_message = <<>>

\* C7 witness: a county-path record with a repaired zip, validated again with
\* its county
C7_Witness ==
    /\ pc = "again_county"
    /\ out.is_valid
    /\ parts.street = <<>>
    /\ out.parts.zip_code # parts.zip_code
    /\ out2.is_valid

C9_ProvinceShortCircuit ==
    (pc = "validated" /\ parts.state \in ProvinceInputs) =>
        /\ ~out.is_valid
        /\ Contains(out.error_message, WordCanadian)
        /\ out.errors # <<>>
        /\ out.errors[Len(out.errors)] = MsgProvince \o parts.state \o <<")">>
        /\ \A i \in 1..Len(out.errors) :
              /\ ~StartsWith(out.errors[i], WordMissing)
              /\ ~StartsWith(out.errors[i], MsgPostal)

\* C9 witness: province NU with nothing else filled in and a postal code with
\* letters
C9_Witness ==
    /\ pc = "validated"
    /\ parts.state = <<"N","U">>
    /\ parts.street = <<>> /\ parts.city = <<>>
    /\ parts.zip_code = <<"K","1","A"," ","0","B","1">>
    /\ ~out.is_valid

\* C10: a zip of exactly four digits is repaired by prepending "3" when state
\* is FL, with no zip reason recorded; for any other state it is returned as
\* it was, the outcome is invalid and "Invalid 4-digit zip: <zip>" is among the
\* reasons.
C10_FourDigitZip ==
    (pc = "validated" /\ Len(parts.zip_code) = 4 /\ AllDigits(parts.zip_code)) =>
        IF parts.state = FL
        THEN /\ out.parts.zip_code = <<"3">> \o parts.zip_code
             /\ \A i \in 1..Len(out.errors) : ~IsZipReason(out.errors[i])
             /\ (Truthy(parts.street) /\ Truthy(parts.city)) =>
                   (out.is_valid /\ out.errors = <<>>)
        ELSE /\ out.parts.zip_code = parts.zip_code
             /\ ~out.is_valid
             /\ Count(out.errors, MsgInvalid4 \o parts.zip_code) = 1
             /\ Contains(out.error_message, MsgInvalid4 \o parts.zip_code)

\* C10 witness: 5678 with state FL comes back as 35678 in a valid outcome
C10_Witness ==
    /\ pc = "validated"
    /\ parts.state = FL
    /\ parts.zip_code = <<"5","6","7","8">>
    /\ out.parts.zip_code = <<"3","5","6","7","8">>
    /\ out.is_valid

----------------------------------------------------------------------------
(* Inputs of the decomposers: a body of at most MaxPieces pieces followed by
   one of the tails, and the addresses the source gives as examples *)

MaxPieces == 3

Pieces ==
    { <<"1">>, <<"A">>, <<" ","S","T">>, <<" ">>, <<",">>, <<"/">>, <<".">>,
      <<"3","3","4","0","5">> }

Tails == { <<>>, <<" ","F","L"," ","3","3","4","0","5">>, <<","," ","F","L"," ","3","3","4","0","5","-","1","2","3","4">>, <<" ","3","3","4","0","5">>, <<" ","F","L">>, <<"T","X","."," ","3","3","4","0","5"," ">> }

RECURSIVE Bodies(_)
Bodies(n) ==
    IF n = 0 THEN {<<>>}
    ELSE LET B == Bodies(n - 1)
         IN  B \cup {b \o q : b \in B, q \in Pieces}

Example1 == <<"4","3","9","0"," ","S","W"," ","2","0","T","H"," ","A","V","E"," ","G","A","I","N","E","S","V","I","L","L","E",","," ","F","L"," ","3","2","6","0","7">>

Example2 == <<"1","0","4","9","1"," ","7","2","N","D"," ","S","T"," ","S","E","M","I","N","O","L","E"," ","F","L"," "," ","3","3","7","7","7","-","1","5","0","0">>

Example3 == <<"1","4","2","3"," ","A","L","L","E","N","D","A","L","E"," ","R","D","/"," ","W","E","S","T"," ","P","A","L","M"," ","B","E","A","C","H"," ","F","L"," ","3","3","4","0","5">>

ExampleAddresses ==
    { Example1, Example2, Example3,
      <<" "," "," ">>, <<"1","2","3","4","5">>, <<",",".","/">>, <<"1","2","3","4","5"," ","(","A",")"," ","*","B","*"," ","r","d","."," ","c"," ","F","L"," ","3","3","4","0","5","-","1","2","3","4","5">>, <<"1"," ","A"," ","B"," ","C"," ","D"," ","F","L"," ","3","3","4","0","5">> }

\* further addresses of the shapes the decomposers tell apart: word counts,
\* a suffix as last word, several commas, a house number of five digits, a
\* missing state, punctuation inside a field
ShapeAddresses ==
    { <<"1"," ","A"," ","B"," ","F","L"," ","3","3","4","0","5">>,
      <<"1"," ","A"," ","B"," ","C"," ","F","L"," ","3","3","4","0","5">>,
      <<"1"," ","A"," ","S","T"," ","F","L"," ","3","3","4","0","5">>,
      <<"1"," ","A"," ","S","T","."," ","B"," ","F","L"," ","3","3","4","0","5">>,
      <<"1","2","3","4","5"," ","M","A","I","N"," ","S","T",","," ","D","A","L","L","A","S"," ","T","X"," ","7","5","0","0","1">>,
      <<"1"," ","M","A","I","N"," ","S","T",","," ","A","P","T"," ","2",","," ","M","I","A","M","I"," ","F","L"," ","3","3","1","0","1">>,
      <<"1"," ","A"," ","S","T",","," ","B"," ","3","3","4","0","5">>,
      <<"A"," ","B","*",","," ","C","."," ","F","L"," ","3","3","4","0","5">>,
      <<"1"," ","A"," ","(","B",")"," ","F","L"," ","3","3","4","0","5">> }

RawInputs ==
    {b \o t : b \in Bodies(MaxPieces), t \in Tails} \cup ExampleAddresses
        \cup ShapeAddresses

----------------------------------------------------------------------------
(* One record through a decomposer, and the converter's validation of what
   its parse_address returned *)

\* what usaddress.tag may do: raise, or return one of these mappings
Taggings ==
    { [k \in {} |-> <<>>],
      ("AddressNumber" :> <<"1">>) @@ ("StreetName" :> <<"(","A",")">>)
          @@ ("StreetNamePostType" :> <<"S","T",".">>)
          @@ ("PlaceName" :> <<"B","O","C","A">>)
          @@ ("StateName" :> <<"R","A","T","O","N">>)
          @@ ("ZipCode" :> <<"3","3","4","0","5">>),
      ("OccupancyIdentifier" :> <<"2">>) @@ ("StreetName" :> <<"A">>)
          @@ ("PlaceName" :> <<"B",",">>) @@ ("StateName" :> <<"F",".">>)
          @@ ("ZipCode" :> <<"3","3","4","0","5",".">>),
      ("StateName" :> <<"T","X",",">>) @@ ("ZipCode" :> <<>>) }

\* usaddress.tag may raise on any address; the mappings are tried on the
\* example and shape addresses and on the empty address
TaggerOutcomes(address) ==
    { [raises |-> TRUE, parsed |-> [k \in {} |-> <<>>]] }
        \cup IF address \in ExampleAddresses \cup ShapeAddresses \cup {<<>>}
             THEN { [raises |-> FALSE, parsed |-> t] : t \in Taggings }
             ELSE {}

InitDecompose ==
    /\ pc = "raw"
    /\ raw \in RawInputs
    /\ parts = NoParts
    /\ dec = NoDec
    /\ out = NoOut
    /\ out2 = NoOut
    /\ BatchIdle

\* address_parts = parse_address(original_address) with usaddress not installed
ParseRegex ==
    /\ pc = "raw"
    /\ \E tagger \in TaggerOutcomes(raw) :
          dec' = converter_parse_address(raw, FALSE, tagger)
    /\ pc' = IF dec'.raised THEN "crashed" ELSE "parsed_regex"
    /\ UNCHANGED <<raw, parts, out, out2>>
    /\ UNCHANGED batchVars

\* address_parts = parse_address(original_address) with usaddress installed;
\* pc records what became of the call of usaddress.tag
ParseTagger ==
    /\ pc = "raw"
    /\ \E tagger \in TaggerOutcomes(raw) :
          /\ dec' = converter_parse_address(raw, TRUE, tagger)
          /\ pc' = IF dec'.raised THEN "crashed"
                   ELSE IF ~Truthy(raw) THEN "tagger_not_called"
                   ELSE IF tagger.raises THEN "tagger_raised"
                   ELSE "tagged"
    /\ UNCHANGED <<raw, parts, out, out2>>
    /\ UNCHANGED batchVars

\* address_parts = parse_address(entry['Location Address']) in format_lead
ParseLeads ==
    /\ pc = "raw"
    /\ dec' = parse_address(raw)
    /\ pc' = IF dec'.raised THEN "crashed" ELSE "parsed_leads"
    /\ UNCHANGED <<raw, parts, out, out2>>
    /\ UNCHANGED batchVars

\* address_parts['county'] = record.get('County', ''), then
\* validate_and_fix_address(address_parts, original_address)
ValidateParsed ==
    /\ pc \in {"parsed_regex", "tagger_not_called", "tagger_raised", "tagged"}
    /\ \E county \in CountyInputs :
          /\ parts' = [street |-> dec.street, city |-> dec.city, state |-> dec.state,
                       zip_code |-> dec.zip_code, county |-> county]
          /\ out' = validate_and_fix_address(parts', raw)
    /\ pc' = IF pc = "parsed_regex" THEN "validated" ELSE "validated_installed"
    /\ UNCHANGED <<raw, dec, out2>>
    /\ UNCHANGED batchVars

NextDecompose == ParseRegex \/ ParseTagger \/ ParseLeads \/ ValidateParsed

SpecDecompose == InitDecompose /\ [][NextDecompose]_vars

----------------------------------------------------------------------------
(* Properties of the decomposers, checked under SpecDecompose *)

\* C1: "4390 SW 20TH AVE GAINESVILLE, FL 32607" decomposes to street
\* "4390 SW 20TH AVE", city "GAINESVILLE", state "FL", zip "32607", and the
\* validation of that result without a county hint is valid.
C1_GainesvilleExample ==
    raw = Example1 =>
        /\ pc = "parsed_regex" =>
              /\ dec.street = <<"4","3","9","0"," ","S","W"," ","2","0","T","H"," ","A","V","E">>
              /\ dec.city = <<"G","A","I","N","E","S","V","I","L","L","E">>
              /\ dec.state = FL
              /\ dec.zip_code = <<"3","2","6","0","7">>
        /\ pc = "parsed_leads" =>
              /\ dec.address = <<"4","3","9","0"," ","S","W"," ","2","0","T","H"," ","A","V","E">>
              /\ dec.city = <<"G","A","I","N","E","S","V","I","L","L","E">>
              /\ dec.state = FL
              /\ dec.zip = <<"3","2","6","0","7">>
        /\ (pc = "validated" /\ parts.county = <<>>) => out.is_valid

\* C2: for every raw string both decomposers return, without raising, a record
\* whose four fields are strings; a zip that was not found is the empty
\* string, parse_address_regex leaves the city empty when the input has no
\* comma or slash, and parse_address leaves city, state and zip empty when it
\* could not find both a state and a zip.
C2_DecomposeTotal ==
    /\ pc # "crashed"
    /\ pc = "parsed_regex" =>
          /\ ~dec.raised
          /\ IsStr(dec.street) /\ IsStr(dec.city)
          /\ IsStr(dec.state) /\ IsStr(dec.zip_code)
          /\ (~\E i \in 1..Len(raw) : DigitsAt(raw, i, 5)) => dec.zip_code = <<>>
          /\ (~HasChar(raw, ",") /\ ~HasChar(raw, "/")) => dec.city = <<>>
    /\ pc = "parsed_leads" =>
          /\ ~dec.raised
          /\ IsStr(dec.address) /\ IsStr(dec.city)
          /\ IsStr(dec.state) /\ IsStr(dec.zip)
          /\ (~\E i \in 1..Len(raw) : DigitsAt(raw, i, 5)) => dec.zip = <<>>
          /\ (dec.zip = <<>> \/ dec.state = <<>>) =>
                /\ dec.address = raw
                /\ dec.city = <<>> /\ dec.state = <<>> /\ dec.zip = <<>>

\* C2 witness: a whitespace-only input went through parse_address_regex
C2_Witness ==
    /\ pc = "parsed_regex"
    /\ raw = <<" "," "," ">>
    /\ dec.street = <<>> /\ dec.city = <<>> /\ dec.zip_code = <<>>

----------------------------------------------------------------------------
(* The zip repairs of validate_and_fix_address, stated on the characters the
   function keeps of the zip it was given *)

DigitsAndHyphens(z) == SelectSeq(z, LAMBDA c : c \in Digits \/ c = "-")

NoZipReason(errors) == \A i \in 1..Len(errors) : ~IsZipReason(errors[i])

----------------------------------------------------------------------------
(* Properties of the decomposers, continued *)

\* C13: "1423 ALLENDALE RD/ WEST PALM BEACH FL 33405" decomposes, by either
\* rule-based decomposer, to a street containing "1423 ALLENDALE RD", a city
\* containing "WEST PALM BEACH", state "FL" and zip "33405", and the
\* validation of that result is valid.
C13_SlashExample ==
    raw = Example3 =>
        /\ pc # "crashed"
        /\ pc \in {"parsed_regex", "validated"} =>
              /\ Contains(dec.street, <<"1","4","2","3"," ","A","L","L","E","N","D","A","L","E"," ","R","D">>)
              /\ Contains(dec.city, <<"W","E","S","T"," ","P","A","L","M"," ","B","E","A","C","H">>)
              /\ dec.state = FL
              /\ dec.zip_code = <<"3","3","4","0","5">>
        /\ pc = "parsed_leads" =>
              /\ Contains(dec.address, <<"1","4","2","3"," ","A","L","L","E","N","D","A","L","E"," ","R","D">>)
              /\ Contains(dec.city, <<"W","E","S","T"," ","P","A","L","M"," ","B","E","A","C","H">>)
              /\ dec.state = FL
              /\ dec.zip = <<"3","3","4","0","5">>
        /\ pc = "validated" =>
              /\ out.is_valid
              /\ out.errors = <<>>
              /\ out.parts.zip_code = <<"3","3","4","0","5">>

\* C13 witness: the slash example was decomposed and validated as valid
C13_Witness ==
    /\ raw = Example3
    /\ pc = "validated"
    /\ parts.street = <<"1","4","2","3"," ","A","L","L","E","N","D","A","L","E"," ","R","D">>
    /\ parts.city = <<"W","E","S","T"," ","P","A","L","M"," ","B","E","A","C","H">>
    /\ out.is_valid

EndsWith(s, t) == Len(t) <= Len(s) /\ SubSeq(s, Len(s) - Len(t) + 1, Len(s)) = t

\* a 5-digit or 5+4-digit token
IsZipToken(z) ==
    \/ FiveDigits(z)
    \/ /\ Len(z) = 10 /\ z[6] = "-"
       /\ FiveDigits(SubSeq(z, 1, 5)) /\ AllDigits(SubSeq(z, 7, 10))

\* the zip token that ends s, leading and trailing whitespace aside, or the
\* empty string when s does not end with one
EndingZip(s) ==
    LET t == Strip(s)
        ends == {k \in 1..Len(t) :
                    /\ IsZipToken(SubSeq(t, k, Len(t)))
                    /\ k > 1 => ~IsWordChar(t[k - 1])}
    IN  IF ends = {} THEN <<>> ELSE SubSeq(t, MinOf(ends), Len(t))

\* C14: the zip a decomposer returns is the 5-digit (optionally +4) token that
\* ends the input; a 5-digit run elsewhere is never taken as the zip, and the
\* zip is empty when the input does not end with such a token (for
\* parse_address, whenever it found a state and so returned a decomposition).
C14_ZipEndsInput ==
    /\ pc = "parsed_regex" => dec.zip_code = EndingZip(raw)
    /\ (pc = "parsed_leads" /\ dec.state # <<>>) => dec.zip = EndingZip(raw)

\* the text left of the zip token that ends s, or s when it ends with none
BeforeEndingZip(s) ==
    LET t == Strip(s)
    IN  Strip(SubSeq(t, 1, Len(t) - Len(EndingZip(s))))

\* the places where a run of exactly two uppercase letters, optionally followed
\* by a comma or a period, ends s
StateTokensAtEnd(s) ==
    {k \in 1..(Len(s) - 1) :
        /\ s[k] \in Upper /\ s[k + 1] \in Upper
        /\ k > 1 => ~IsWordChar(s[k - 1])
        /\ PunctToEnd(s, k + 2)}

RegexBeforeZip(s) ==
    LET a == CollapseSpaces(Replace(Strip(s), "/", ","))
        m == zip_search_anywhere(a)
    IN  IF m.found THEN Strip(SubSeq(a, 1, m.start - 1)) ELSE a

\* the words of t once its commas separate words and . ( ) * are dropped
CleanWords(t) ==
    Words(SelectSeq(Replace(t, ",", " "), LAMBDA c : c \notin {".", "(", ")", "*"}))

RegexBeforeState(s) ==
    LET t == RegexBeforeZip(s)
        m == state_search_punct(t)
        u == IF m.found THEN Strip(SubSeq(t, 1, m.start - 1)) ELSE t
    IN  Strip(strip_trailing_punct(u))

\* the text parse_address splits into street and city when it found both a
\* zip and a state
LeadsBeforeState(s) ==
    LET t == BeforeEndingZip(s)
    IN  Strip(SubSeq(t, 1, Len(t) - 2))

FirstComma(t) == MinOf({j \in 1..Len(t) : t[j] = ","})

\* C16: when the text left after removing zip and state holds one or more
\* commas, a decomposer splits it once at the first comma: the street is the
\* text before it and the city everything after it, later segments included
\* (each cleaned as the decomposer cleans its fields).
C16_FirstCommaSplit ==
    /\ (pc = "parsed_regex" /\ HasChar(RegexBeforeState(raw), ",")) =>
          LET r == RegexBeforeState(raw)
              k == FirstComma(r)
          IN  /\ dec.street = clean_field(SubSeq(r, 1, k - 1))
              /\ dec.city = clean_field(SubSeq(r, k + 1, Len(r)))
    /\ (pc = "parsed_leads" /\ dec.state # <<>> /\ HasChar(LeadsBeforeState(raw), ",")) =>
          LET r == LeadsBeforeState(raw)
              k == FirstComma(r)
          IN  /\ dec.address = Strip(SubSeq(r, 1, k - 1))
              /\ dec.city = Strip(SubSeq(r, k + 1, Len(r)))

\* the non-empty comma-separated segments of t, each without the whitespace
\* around it
Segments(t) ==
    LET pieces == Split(t, ",")
    IN  SelectSeq([i \in 1..Len(pieces) |-> Strip(pieces[i])], LAMBDA x : x # <<>>)

\* C16, per decomposer: parse_address splits the text left after zip and state
\* once at its first comma, street before it and city everything after it,
\* later commas included; parse_address_regex splits at every comma, returns
\* the last non-empty segment as the city and the earlier segments, in order,
\* as the street, and returns no city when fewer than two segments are
\* non-empty.
C16_CommaSplitPerDecomposer ==
    /\ (pc = "parsed_leads" /\ dec.state # <<>> /\ HasChar(LeadsBeforeState(raw), ",")) =>
          LET r == LeadsBeforeState(raw)
              k == FirstComma(r)
          IN  /\ dec.address = Strip(SubSeq(r, 1, k - 1))
              /\ dec.city = Strip(SubSeq(r, k + 1, Len(r)))
    /\ (pc = "parsed_regex" /\ HasChar(RegexBeforeState(raw), ",")) =>
          LET r == RegexBeforeState(raw)
              segs == Segments(r)
          IN  IF Len(segs) >= 2
              THEN /\ dec.city = clean_field(segs[Len(segs)])
                   /\ Words(dec.street) \o Words(dec.city) = CleanWords(r)
              ELSE /\ dec.city = <<>>
                   /\ Words(dec.street) = CleanWords(r)

\* C16 witness: parse_address split a text with two commas at the first one,
\* and the second comma is in the city
C16_Witness ==
    /\ pc = "parsed_leads"
    /\ dec.state # <<>>
    /\ Cardinality({j \in 1..Len(LeadsBeforeState(raw)) : LeadsBeforeState(raw)[j] = ","}) >= 2
    /\ dec.address # <<>>
    /\ HasChar(dec.city, ",")

\* the places of the words of ws that are street suffixes
SuffixPlaces(ws) ==
    {i \in 1..Len(ws) : ToUpper(RStripDots(ws[i])) \in street_indicators}

\* C17: when the text left after removing zip and state has no comma (and no
\* slash, which stands for a comma), the street is every word up to and
\* including the first word that is a street suffix and the city is the
\* remaining words; when that suffix is the last word the street is the whole
\* text and the city is empty.
C17_SuffixSplit ==
    /\ (pc = "parsed_leads" /\ dec.state # <<>>) =>
          LET r == LeadsBeforeState(raw)
              ws == Words(r)
          IN  (~HasChar(r, ",") /\ ~HasChar(r, "/") /\ SuffixPlaces(ws) # {}) =>
                 LET i == MinOf(SuffixPlaces(ws))
                 IN  /\ dec.address = Join(SubSeq(ws, 1, i), <<" ">>)
                     /\ dec.city = Join(SubSeq(ws, i + 1, Len(ws)), <<" ">>)
    /\ pc = "parsed_regex" =>
          LET r == RegexBeforeState(raw)
              ws == Words(r)
          IN  (~HasChar(r, ",") /\ SuffixPlaces(ws) # {}) =>
                 LET i == MinOf(SuffixPlaces(ws))
                 IN  /\ dec.street = clean_field(Join(SubSeq(ws, 1, i), <<" ">>))
                     /\ dec.city = clean_field(Join(SubSeq(ws, i + 1, Len(ws)), <<" ">>))

\* C18: when parse_address found zip and state and the text left has no comma
\* (nor slash) and no word that is a street suffix: with more than three
\* words the last two are the city and the rest the street; with two or three
\* words the last one is the city and the rest the street; with a single word
\* the street is that word and the city is empty.
C18_FallbackSplit ==
    (pc = "parsed_leads" /\ dec.state # <<>>) =>
        LET r == LeadsBeforeState(raw)
            ws == Words(r)
            n == Len(ws)
        IN  (~HasChar(r, ",") /\ ~HasChar(r, "/") /\ SuffixPlaces(ws) = {}) =>
               IF n > 3
               THEN /\ dec.address = Join(SubSeq(ws, 1, n - 2), <<" ">>)
                    /\ dec.city = ws[n - 1] \o <<" ">> \o ws[n]
               ELSE IF n \in {2, 3}
               THEN /\ dec.address = Join(SubSeq(ws, 1, n - 1), <<" ">>)
                    /\ dec.city = ws[n]
               ELSE IF n = 1
               THEN dec.address = ws[1] /\ dec.city = <<>>
               ELSE dec.address = <<>> /\ dec.city = <<>>

\* C18 witness: five words without a suffix, the last two returned as the city
C18_Witness ==
    /\ pc = "parsed_leads"
    /\ raw = <<"1"," ","A"," ","B"," ","C"," ","D"," ","F","L"," ","3","3","4","0","5">>
    /\ dec.address = <<"1"," ","A"," ","B">>
    /\ dec.city = <<"C"," ","D">>

NoPunctuation(f) == \A i \in 1..Len(f) : f[i] \notin {",", ".", "(", ")", "*"}

\* C19: for every input, none of the four fields a decomposer returns holds a
\* comma, a period, a parenthesis or a "*".
C19_FieldsClean ==
    /\ pc \in {"parsed_regex", "tagger_not_called", "tagger_raised", "tagged"} =>
          /\ NoPunctuation(dec.street) /\ NoPunctuation(dec.city)
          /\ NoPunctuation(dec.state) /\ NoPunctuation(dec.zip_code)
    /\ pc = "parsed_leads" =>
          /\ NoPunctuation(dec.address) /\ NoPunctuation(dec.city)
          /\ NoPunctuation(dec.state) /\ NoPunctuation(dec.zip)

\* C20: whenever usaddress.tag raises, or usaddress is not installed, the
\* converter's parse_address returns exactly what parse_address_regex returns
\* for the same raw input, and no exception reaches the caller.
C20_TaggerFallback ==
    /\ pc # "crashed"
    /\ pc \in {"tagger_raised", "parsed_regex"} =>
          /\ dec = parse_address_regex(raw)
          /\ ~dec.raised

\* C20 witness: usaddress.tag raised on the slash example and the parts are
\* those of parse_address_regex
C20_Witness ==
    /\ pc = "tagger_raised"
    /\ raw = Example3
    /\ dec.street = <<"1","4","2","3"," ","A","L","L","E","N","D","A","L","E"," ","R","D">>
    /\ dec.city = <<"W","E","S","T"," ","P","A","L","M"," ","B","E","A","C","H">>
    /\ dec.zip_code = <<"3","3","4","0","5">>

----------------------------------------------------------------------------
(* Properties of the validator, continued; checked under Spec *)

IsParts(p) ==
    /\ {"street", "city", "state", "zip_code"} \subseteq DOMAIN p
    /\ IsStr(p.street) /\ IsStr(p.city) /\ IsStr(p.state) /\ IsStr(p.zip_code)

IsOutcome(o) ==
    /\ IsParts(o.parts)
    /\ o.is_valid \in BOOLEAN
    /\ \A i \in 1..Len(o.errors) : IsStr(o.errors[i])
    /\ IsStr(o.error_message)

C26_ValidZipWellFormed ==
    (pc = "validated" /\ out.is_valid) => IsZipToken(out.parts.zip_code)

NoMissingReason(errors) == \A i \in 1..Len(errors) : ~StartsWith(errors[i], WordMissing)

PassesZipBlock(z) ==
    \/ IsZipToken(z)
    \/ Len(z) = 6 /\ AllDigits(z)
    \/ /\ Len(z) \in 6..9 /\ z[6] = "-"
       /\ FiveDigits(SubSeq(z, 1, 5))
       /\ \A i \in 7..Len(z) : z[i] \in Digits

\* C28: on the Canadian-province exit the parts returned are the parts given,
\* county included and zip unrepaired, and the reasons are the zip reasons the
\* zip block recorded (at least one for a zip it does not let pass, none for
\* an empty zip) followed by the province reason.
C28_ProvinceReturnsInput ==
    (pc = "validated" /\ parts.state \in CanadianProvinces) =>
        LET n == Len(out.errors)
            z == DigitsAndHyphens(parts.zip_code)
        IN  /\ out.parts = parts
            /\ n >= 1
            /\ out.errors[n] = MsgProvince \o parts.state \o <<")">>
            /\ \A i \in 1..(n - 1) : IsZipReason(out.errors[i])
            /\ (parts.zip_code # <<>> /\ ~PassesZipBlock(z)) => n >= 2
            /\ (parts.zip_code = <<>> \/ PassesZipBlock(z)) => n = 1
            /\ out.error_message = Join(out.errors, ErrorSep)

\* C28 witness: state ON and zip "K1A 0B1": the zip comes back as given and
\* "Invalid zip format: 101" precedes the province reason
C28_Witness ==
    /\ pc = "validated"
    /\ parts.state = <<"O","N">>
    /\ parts.zip_code = <<"K","1","A"," ","0","B","1">>
    /\ out.parts = parts
    /\ Len(out.errors) = 2
    /\ out.errors[1] = MsgZipFormat \o <<"1","0","1">>

----------------------------------------------------------------------------
(* convert_json_to_csv, json_to_dealmachine_csv.py: a run over the records of
   the input file.  A record is the mapping json.load returned; of its keys
   the model keeps those the routing reads, 'Location Address' and 'County',
   and 'Owner Name', which the inputs make different for every record *)

MaxRecords == 3

Record(address, county, owner) ==
    ("Location Address" :> address) @@ ("County" :> county)
        @@ ("Owner Name" :> owner)

\* the owner of the k-th record of the input
OwnerNames == << <<"A","N","N">>, <<"B","O","B">>, <<"C","Y">>, <<"D","E","E">>,
                 <<"E","D">> >>

\* the records of inputs: one without address and county, one whose address
\* validates, one that is only a state and a zip code in a known county, one
\* with a street and a county but no zip code
RecordInputs ==
    { [address |-> <<>>, county |-> <<>>],
      [address |-> <<"1"," ","A"," ","S","T",","," ","B"," ","3","3","4","0","5">>,
       county |-> <<>>],
      [address |-> <<"F","L"," ","3","3","4","0","5">>,
       county |-> <<"D","U","V","A","L">>],
      [address |-> <<"1"," ","A"," ","S","T",","," ","B"," ","F","L">>,
       county |-> <<"D","U","V","A","L">>] }

DataInputs ==
    UNION { { [k \in 1..n |-> Record(f[k].address, f[k].county, OwnerNames[k])] :
                f \in [1..n -> RecordInputs] } : n \in 0..MaxRecords }

\* 'if csv_row['Address Line 1']:', rows without a street dropped
keeps_row_street_only(csv_row) == Truthy(csv_row["Address Line 1"])

\* if csv_row['Address Line 1'] or csv_row['County']:
keeps_row(csv_row) ==
    Truthy(csv_row["Address Line 1"]) \/ Truthy(csv_row["County"])

\* the entry appended to skipped_rows
skipped_row(record, error_msg) ==
    [original |-> record["Location Address"], reason |-> error_msg,
     owner |-> record["Owner Name"], county |-> record["County"]]

\* csv_row = {...}
csv_row_of(record, fixed_parts) ==
    ("Address Line 1" :> fixed_parts.street) @@ ("City" :> fixed_parts.city)
        @@ ("State" :> fixed_parts.state)
        @@ ("Zip Code" :> fixed_parts.zip_code)
        @@ ("County" :> record["County"])
        @@ ("Owner Name" :> record["Owner Name"])
        @@ ("Original Address" :> record["Location Address"])

\* the row writer.writerow puts into the skipped log for one skip
skipped_log_row(skip) ==
    ("Original Address" :> skip.original) @@ ("Error Reason" :> skip.reason)
        @@ ("Owner Name" :> skip.owner) @@ ("County" :> skip.county)

InitConvert ==
    /\ pc = "convert_loop"
    /\ raw = <<>>
    /\ parts = NoParts
    /\ dec = NoDec
    /\ out = NoOut
    /\ out2 = NoOut
    /\ idx = 0
    /\ USADDRESS_INSTALLED \in BOOLEAN
    /\ data \in DataInputs
    /\ csv_rows = <<>>
    /\ skipped_rows = <<>>
    /\ csv_file = NotWritten
    /\ skipped_file = NotWritten
    /\ LeadsIdle
    /\ DedupIdle

\* one pass of 'for record in data:'; an exception leaving parse_address ends
\* the run, the function having no try/except
ConvertRecord ==
    /\ pc = "convert_loop"
    /\ idx < Len(data)
    /\ \E record \in {data[idx + 1]} :
       \E tagger \in TaggerOutcomes(record["Location Address"]) :
       \E parsed \in {converter_parse_address(record["Location Address"],
                                              USADDRESS_INSTALLED, tagger)} :
          IF parsed.raised
          THEN /\ pc' = "crashed"
               /\ UNCHANGED <<idx, csv_rows, skipped_rows>>
          ELSE \E result \in
                  {validate_and_fix_address(
                       [street |-> parsed.street, city |-> parsed.city,
                        state |-> parsed.state, zip_code |-> parsed.zip_code,
                        county |-> record["County"]],
                       record["Location Address"])} :
               /\ pc' = pc
               /\ idx' = idx + 1
               /\ IF ~result.is_valid
                  THEN /\ skipped_rows' =
                              Append(skipped_rows,
                                     skipped_row(record, result.error_message))
                       /\ UNCHANGED csv_rows
                  ELSE \E csv_row \in {csv_row_of(record, result.parts)} :
                          /\ csv_rows' = IF keeps_row(csv_row)
                                         THEN Append(csv_rows, csv_row)
                                         ELSE csv_rows
                          /\ UNCHANGED skipped_rows
    /\ UNCHANGED <<USADDRESS_INSTALLED, data, csv_file, skipped_file>>
    /\ UNCHANGED <<recordVars, leadsVars, dedupVars>>

\* after the loop: 'if csv_rows:' writes the CSV and, inside that branch,
\* 'if skipped_rows:' writes dealmachine_import_skipped.csv; the else branch
\* prints a message and writes nothing
WriteCsv ==
    /\ pc = "convert_loop"
    /\ idx = Len(data)
    /\ pc' = "converted"
    /\ IF csv_rows # <<>>
       THEN /\ csv_file' = Written(csv_rows)
            /\ skipped_file' =
                   IF skipped_rows # <<>>
                   THEN Written([k \in 1..Len(skipped_rows) |->
                                    skipped_log_row(skipped_rows[k])])
                   ELSE NotWritten
       ELSE UNCHANGED <<csv_file, skipped_file>>
    /\ UNCHANGED <<idx, USADDRESS_INSTALLED, data, csv_rows, skipped_rows>>
    /\ UNCHANGED <<recordVars, leadsVars, dedupVars>>

NextConvert == ConvertRecord \/ WriteCsv

SpecConvert == InitConvert /\ [][NextConvert]_vars

----------------------------------------------------------------------------
(* Properties of the converter run, checked under SpecConvert *)

\* the owners of a list of rows, in the order of the list
Owners(rows, key) == [k \in 1..Len(rows) |-> rows[k][key]]

\* the position in data of the record with this owner
PositionOf(owner) == CHOOSE k \in 1..Len(data) : data[k]["Owner Name"] = owner

\* the list names records of the input, in input order, none twice
InInputOrder(owners) ==
    /\ \A k \in 1..Len(owners) :
          \E j \in 1..Len(data) : data[j]["Owner Name"] = owners[k]
    /\ \A j, k \in 1..Len(owners) :
          j < k => PositionOf(owners[j]) < PositionOf(owners[k])

\* C21: in a converter run every record that validation rejects goes to the
\* skipped sink: whenever at least one record was skipped, the skipped log is
\* written and holds one entry per skipped record, in their order, also when
\* no record at all was accepted and the main output is empty.
C21_SkippedLogWritten ==
    (pc = "converted" /\ skipped_rows # <<>>) =>
        /\ skipped_file # NotWritten
        /\ Len(ContentOf(skipped_file)) = Len(skipped_rows)
        /\ \A k \in 1..Len(skipped_rows) :
              LET row == ContentOf(skipped_file)[k]
              IN  /\ row["Owner Name"] = skipped_rows[k].owner
                  /\ row["Error Reason"] = skipped_rows[k].reason

\* C22: once the converter's loop has handled the N records of the input,
\* every record is in exactly one of csv_rows and skipped_rows: the two lists
\* together hold N entries, no record is in both or in neither, and each list
\* keeps the order of the input.  (Stated for every point of the loop: after
\* idx records the two lists hold exactly the first idx records.)
C22_EveryRecordOnce ==
    pc \in {"convert_loop", "converted"} =>
        LET accepted == Owners(csv_rows, "Owner Name")
            skipped  == Owners(skipped_rows, "owner")
        IN  /\ Len(accepted) + Len(skipped) = idx
            /\ pc = "converted" => idx = Len(data)
            /\ \A j \in 1..Len(data) :
                  LET owner == data[j]["Owner Name"]
                      a == \E k \in 1..Len(accepted) : accepted[k] = owner
                      s == \E k \in 1..Len(skipped) : skipped[k] = owner
                  IN  IF j <= idx THEN a # s ELSE ~a /\ ~s
            /\ InInputOrder(accepted)
            /\ InInputOrder(skipped)

\* a finished run over three records, of which the first and the third were
\* accepted, the third without a street on the strength of its county, and
\* the second was skipped
C22_Witness ==
    /\ pc = "converted"
    /\ Len(data) = 3
    /\ Owners(csv_rows, "Owner Name") = << OwnerNames[1], OwnerNames[3] >>
    /\ Owners(skipped_rows, "owner") = << OwnerNames[2] >>
    /\ csv_rows[2]["Address Line 1"] = <<>>
    /\ csv_rows[1]["Address Line 1"] # <<>>

----------------------------------------------------------------------------
(* add_leads_to_dealmachine, add_leads_to_dealmachine.py: a batch over the
   leads of the input file.  An entry is the mapping json.load returned;
   requests.post is an external call, and what it does is an input of the
   model.  Timestamps and the delay between requests are left out, and the
   notes of a lead are kept as the values they are formatted from. *)

MaxLeads == 3

\* the keys format_lead subscripts
FormatKeys ==
    { "Location Address", "Owner Name", "County", "Total Warrant Amount",
      "Number of Warrants", "Warrant Numbers" }

\* an entry as deduplicate_taxes writes it, for the k-th owner
GoodEntry(k) ==
    ("Owner Name" :> OwnerNames[k])
        @@ ("Location Address" :> <<"1"," ","A"," ","S","T",","," ","B"," ","F","L"," ","3","3","4","0","5">>)
        @@ ("County" :> <<"D","U","V","A","L">>)
        @@ ("Total Warrant Amount" :> 100 * k)
        @@ ("Number of Warrants" :> 1)
        @@ ("Warrant Numbers" :> << k >>)

\* the same entry without its 'Location Address' key
EntryWithoutAddress(k) ==
    [key \in DOMAIN GoodEntry(k) \ {"Location Address"} |-> GoodEntry(k)[key]]

\* the entry {}
EmptyEntry == [key \in {} |-> <<>>]

EntryInputs(k) == { GoodEntry(k), EntryWithoutAddress(k), EmptyEntry }

LeadsInputs ==
    UNION { { f \in [1..n -> UNION {EntryInputs(k) : k \in 1..n}] :
                \A k \in 1..n : f[k] \in EntryInputs(k) } : n \in 0..MaxLeads }

\* --max-leads: 'all' gives None, a number gives the integer
MaxLeadsInputs == {None} \cup { Number(k) : k \in -1 .. MaxLeads + 1 }

\* what requests.post(...) and response.json() may do: raise (a timeout, a
\* refused connection), or answer with a status code and a body that is JSON
\* or is not
PostOutcomes ==
    { [raises |-> TRUE, status_code |-> 0, json |-> FALSE],
      [raises |-> FALSE, status_code |-> 200, json |-> TRUE],
      [raises |-> FALSE, status_code |-> 201, json |-> FALSE],
      [raises |-> FALSE, status_code |-> 404, json |-> TRUE],
      [raises |-> FALSE, status_code |-> 500, json |-> FALSE] }

\* bool(entry) of a dict
TruthyEntry(entry) == DOMAIN entry # {}

\* the lead object format_lead builds from the entry and its address parts
lead_of(entry, address_parts) ==
    [address |-> address_parts.address,
     city |-> address_parts.city,
     state |-> address_parts.state,
     zip |-> address_parts.zip,
     owner_name |-> entry["Owner Name"],
     notes |-> << entry["County"], entry["Total Warrant Amount"],
                  entry["Number of Warrants"], entry["Warrant Numbers"] >>]

\* format_lead(entry); raised: a KeyError left the function.  parse_address
\* itself raises nothing.
format_lead(entry) ==
    IF ~(FormatKeys \subseteq DOMAIN entry)
    THEN [raised |-> TRUE, lead |-> <<>>]
    ELSE [raised |-> FALSE,
          lead |-> lead_of(entry, parse_address(entry["Location Address"]))]

\* delinquent_taxes[:max_leads] of Python, a negative max_leads counting from
\* the end
slice_to(list, k) ==
    LET n == IF k >= 0 THEN (IF k < Len(list) THEN k ELSE Len(list))
             ELSE (IF Len(list) + k > 0 THEN Len(list) + k ELSE 0)
    IN  SubSeq(list, 1, n)

\* if max_leads: leads_to_process = delinquent_taxes[:max_leads]
\* else: leads_to_process = delinquent_taxes
select_leads(list, limit) ==
    IF limit # None /\ ValueOf(limit) # 0
    THEN slice_to(list, ValueOf(limit))
    ELSE list

\* the result record of the try block
result_of_response(index, entry, lead_data, post) ==
    [index |-> index, original_entry |-> entry, formatted_lead |-> lead_data,
     status_code |-> Number(post.status_code),
     response |-> IF post.json THEN "response.json()" ELSE "raw_response",
     success |-> (200 <= post.status_code /\ post.status_code < 300)]

\* the result record of the except block, lead_data being what its
\* 'format_lead(entry) if entry else None' gave
result_of_exception(index, entry, lead_data) ==
    [index |-> index, original_entry |-> entry, formatted_lead |-> lead_data,
     status_code |-> None, response |-> "error", success |-> FALSE]

InitLeads ==
    /\ pc = "leads_start"
    /\ raw = <<>>
    /\ parts = NoParts
    /\ dec = NoDec
    /\ out = NoOut
    /\ out2 = NoOut
    /\ idx = 0
    /\ ConverterIdle
    /\ DedupIdle
    /\ delinquent_taxes \in LeadsInputs
    /\ max_leads \in MaxLeadsInputs
    /\ leads_to_process = <<>>
    /\ responses = <<>>
    /\ success_count = 0
    /\ error_count = 0
    /\ output_file = NotWritten

\* 'Limit the number of leads if specified'
SelectLeads ==
    /\ pc = "leads_start"
    /\ leads_to_process' = select_leads(delinquent_taxes, max_leads)
    /\ pc' = "leads_loop"
    /\ UNCHANGED <<idx, delinquent_taxes, max_leads, responses, success_count,
                   error_count, output_file>>
    /\ UNCHANGED <<recordVars, converterVars, dedupVars>>

\* one pass of 'for idx, entry in enumerate(leads_to_process, 1):'.  The
\* print before the try subscripts entry['Owner Name']; the except block
\* counts the error and then formats the lead again, outside any try.
ProcessLead ==
    /\ pc = "leads_loop"
    /\ idx < Len(leads_to_process)
    /\ \E index \in {idx + 1} :
       \E entry \in {leads_to_process[index]} :
          IF "Owner Name" \notin DOMAIN entry
          THEN /\ pc' = "crashed"
               /\ UNCHANGED <<idx, responses, success_count, error_count>>
          ELSE \E formatted \in {format_lead(entry)} :
               IF formatted.raised
               THEN /\ error_count' = error_count + 1
                    /\ UNCHANGED success_count
                    /\ IF TruthyEntry(entry)
                       THEN \* format_lead(entry) raises again
                            /\ pc' = "crashed"
                            /\ UNCHANGED <<idx, responses>>
                       ELSE /\ responses' =
                                   Append(responses,
                                          result_of_exception(index, entry, None))
                            /\ idx' = index
                            /\ pc' = pc
               ELSE \E post \in PostOutcomes :
                       /\ pc' = pc
                       /\ idx' = index
                       /\ IF post.raises
                          THEN /\ error_count' = error_count + 1
                               /\ UNCHANGED success_count
                               /\ responses' =
                                      Append(responses,
                                             result_of_exception(index, entry,
                                                                 formatted.lead))
                          ELSE \E result \in {result_of_response(index, entry,
                                                   formatted.lead, post)} :
                                  /\ responses' = Append(responses, result)
                                  /\ IF result.success
                                     THEN /\ success_count' = success_count + 1
                                          /\ UNCHANGED error_count
                                     ELSE /\ error_count' = error_count + 1
                                          /\ UNCHANGED success_count
    /\ UNCHANGED <<delinquent_taxes, max_leads, leads_to_process, output_file>>
    /\ UNCHANGED <<recordVars, converterVars, dedupVars>>

\* 'Save all responses to output file', then the printed summary, whose
\* success rate divides by len(leads_to_process)
SaveResponses ==
    /\ pc = "leads_loop"
    /\ idx = Len(leads_to_process)
    /\ output_file' =
           Written([summary |-> [total_processed |-> Len(leads_to_process),
                                 successful |-> success_count,
                                 failed |-> error_count],
                    responses |-> responses])
    /\ pc' = IF Len(leads_to_process) = 0 THEN "crashed" ELSE "leads_done"
    /\ UNCHANGED <<idx, delinquent_taxes, max_leads, leads_to_process, responses,
                   success_count, error_count>>
    /\ UNCHANGED <<recordVars, converterVars, dedupVars>>

NextLeads == SelectLeads \/ ProcessLead \/ SaveResponses

SpecLeads == InitLeads /\ [][NextLeads]_vars

----------------------------------------------------------------------------
(* Properties of the leads batch, checked under SpecLeads *)

\* the batch has chosen its leads
LeadsSelected == pc \in {"leads_loop", "leads_done"} \/ output_file # NotWritten

\* C24: add_leads_to_dealmachine with an integer max_leads = k processes
\* exactly the first min(k, N) of the N input leads, so none for k = 0, and
\* processes all N leads only when max_leads is None.
C24_FirstKLeads ==
    LET N == Len(delinquent_taxes)
        k == IF max_leads = None THEN 0 ELSE ValueOf(max_leads)
        limited == LeadsSelected /\ max_leads # None /\ k >= 0
    IN  /\ limited =>
              leads_to_process =
                  SubSeq(delinquent_taxes, 1, IF k < N THEN k ELSE N)
        /\ (LeadsSelected /\ max_leads = None) =>
              leads_to_process = delinquent_taxes
        /\ (limited /\ k < N) =>
              leads_to_process # delinquent_taxes
        /\ output_file # NotWritten =>
              /\ Len(responses) = Len(leads_to_process)
              /\ \A i \in 1..Len(responses) :
                    responses[i].original_entry = leads_to_process[i]

\* no lead of the batch lacks the owner name that is printed before the try
OwnersNamed ==
    \A i \in 1..Len(leads_to_process) : "Owner Name" \in DOMAIN leads_to_process[i]

\* C29: a failure while handling one lead, an exception raised while
\* formatting it or while posting it, never aborts the batch: each lead
\* handled so far has exactly one response record, in input order, a failed
\* lead has success = FALSE, the loop goes on to the remaining leads, and in
\* the saved file successful + failed is the number of response records and
\* the number of leads processed.
C29_FailureDoesNotAbort ==
    (LeadsSelected \/ pc = "crashed") /\ OwnersNamed =>
        /\ pc = "crashed" => output_file # NotWritten
        /\ Len(responses) = idx
        /\ \A i \in 1..Len(responses) :
              /\ responses[i].index = i
              /\ responses[i].original_entry = leads_to_process[i]
              /\ format_lead(leads_to_process[i]).raised => ~responses[i].success
              /\ responses[i].status_code = None => ~responses[i].success
        /\ success_count + error_count = Len(responses)
        /\ success_count =
               Cardinality({i \in 1..Len(responses) : responses[i].success})
        /\ output_file # NotWritten =>
              /\ idx = Len(leads_to_process)
              /\ ContentOf(output_file).responses = responses
              /\ LET summary == ContentOf(output_file).summary
                 IN  /\ summary.successful + summary.failed = Len(responses)
                     /\ summary.total_processed = Len(responses)

----------------------------------------------------------------------------
(* deduplicate_taxes, deduplicate.py.  Amounts are Python floats; the model
   counts them in thousandths of a dollar, and a rounded total in cents.
   round(x, 2) rounds to the nearest cent; when x lies half-way between two
   cents the result depends on the binary value of the float sum, and both
   neighbours are outcomes. *)

MaxEntries == 3

AmountKey == "Warrant Amount Recorded in the County Records"

\* the keys the loop subscripts
DedupKeys ==
    { "Owner Name", "Location Address", "Warrant Number", AmountKey,
      "DBA/Business Name", "County" }

\* (Owner Name, Location Address) of the entries of inputs
PairInputs ==
    { << OwnerNames[1], <<"1"," ","A"," ","S","T">> >>,
      << OwnerNames[1], <<"2"," ","B"," ","R","D">> >>,
      << OwnerNames[2], <<"1"," ","A"," ","S","T">> >> }

\* amounts in thousandths of a dollar, 0.005 and 1.25: alone or added up they
\* give totals below a cent, of whole cents, and half-way between two cents
AmountInputs == { 5, 1250 }

\* the k-th entry of an input; its warrant number is k
TaxEntry(k, pair, amount) ==
    ("Owner Name" :> pair[1]) @@ ("Location Address" :> pair[2])
        @@ ("Warrant Number" :> k) @@ (AmountKey :> amount)
        @@ ("DBA/Business Name" :> <<>>)
        @@ ("County" :> <<"D","U","V","A","L">>)

\* an entry without its 'Warrant Number'
EntryWithoutWarrant ==
    [key \in DedupKeys \ {"Warrant Number"} |->
        TaxEntry(1, << OwnerNames[1], <<"1"," ","A"," ","S","T">> >>, 5)[key]]

EntriesInputs ==
    UNION { { [k \in 1..n |-> IF f[k].whole
                              THEN TaxEntry(k, f[k].pair, f[k].amount)
                              ELSE EntryWithoutWarrant] :
                f \in [1..n -> { [whole |-> TRUE, pair |-> p, amount |-> a] :
                                    p \in PairInputs, a \in AmountInputs }
                               \cup { [whole |-> FALSE, pair |-> <<>>, amount |-> 0] }] } :
            n \in 0..MaxEntries }

\* key = entry['Owner Name'] alone
key_of_owner_only(entry) == << entry["Owner Name"] >>

\* key = (entry['Owner Name'], entry['Location Address'])
key_of(entry) == << entry["Owner Name"], entry["Location Address"] >>

\* the keys of the dict after the loop, in the order of their insertion
RECURSIVE keys_in_order(_)
keys_in_order(list) ==
    IF list = <<>> THEN <<>>
    ELSE LET before == keys_in_order(SubSeq(list, 1, Len(list) - 1))
             key == key_of(list[Len(list)])
         IN  IF \E i \in 1..Len(before) : before[i] = key
             THEN before
             ELSE Append(before, key)

\* the entries that went into deduplicated[key], in the order of the loop
entries_of(list, key) == SelectSeq(list, LAMBDA entry : key_of(entry) = key)

\* deduplicated[key]['total_amount'] after the loop, in thousandths
RECURSIVE total_amount(_)
total_amount(list) ==
    IF list = <<>> THEN 0
    ELSE total_amount(Tail(list)) + Head(list)[AmountKey]

\* the cents round(total_amount, 2) may give
round2(thousandths) ==
    LET down == thousandths \div 10
        rest == thousandths % 10
    IN  IF rest < 5 THEN {down}
        ELSE IF rest > 5 THEN {down + 1}
        ELSE {down, down + 1}

\* the dict appended to output_data for one key; the fields other than the
\* key's are those of the last entry with the key
output_entry(group, total) ==
    LET last == group[Len(group)]
    IN  ("DBA/Business Name" :> last["DBA/Business Name"])
            @@ ("Owner Name" :> last["Owner Name"])
            @@ ("Location Address" :> last["Location Address"])
            @@ ("County" :> last["County"])
            @@ ("Warrant Numbers" :>
                    [i \in 1..Len(group) |-> group[i]["Warrant Number"]])
            @@ ("Total Warrant Amount" :> total)
            @@ ("Number of Warrants" :> Len(group))

\* the place of a new element in a list sorted by falling total: behind the
\* elements that are not smaller, the sort being stable
RECURSIVE insert_by_total(_, _)
insert_by_total(sorted, x) ==
    IF sorted = <<>> THEN << x >>
    ELSE IF Head(sorted)["Total Warrant Amount"] >= x["Total Warrant Amount"]
    THEN << Head(sorted) >> \o insert_by_total(Tail(sorted), x)
    ELSE << x >> \o sorted

\* output_data.sort(key=...) without reverse=True, the smallest total first
RECURSIVE sort_by_total_rising(_)
sort_by_total_rising(list) ==
    IF list = <<>> THEN <<>>
    ELSE LET rest == sort_by_total_rising(SubSeq(list, 1, Len(list) - 1))
             x == list[Len(list)]
             place == Cardinality({i \in 1..Len(rest) :
                          rest[i]["Total Warrant Amount"] <= x["Total Warrant Amount"]})
         IN  SubSeq(rest, 1, place) \o << x >> \o SubSeq(rest, place + 1, Len(rest))

\* output_data.sort(key=lambda x: x['Total Warrant Amount'], reverse=True)
RECURSIVE sort_by_total(_)
sort_by_total(list) ==
    IF list = <<>> THEN <<>>
    ELSE insert_by_total(sort_by_total(SubSeq(list, 1, Len(list) - 1)),
                         list[Len(list)])

\* output_data before the sort, one list for every way the half-way totals
\* may round
RECURSIVE output_data(_)
output_data(groups) ==
    IF groups = <<>> THEN { <<>> }
    ELSE LET group == groups[Len(groups)]
         IN  { Append(before, output_entry(group, total)) :
                  before \in output_data(SubSeq(groups, 1, Len(groups) - 1)),
                  total \in round2(total_amount(group)) }

\* the lists deduplicate_taxes may write for this input
deduplicate_taxes(list) ==
    LET keys == keys_in_order(list)
        groups == [i \in 1..Len(keys) |-> entries_of(list, keys[i])]
    IN  { sort_by_total(unsorted) : unsorted \in output_data(groups) }

InitDedup ==
    /\ pc = "dedup_start"
    /\ raw = <<>>
    /\ parts = NoParts
    /\ dec = NoDec
    /\ out = NoOut
    /\ out2 = NoOut
    /\ idx = 0
    /\ ConverterIdle
    /\ LeadsIdle
    /\ entries \in EntriesInputs
    /\ deduplicated = <<>>

\* deduplicate_taxes(input_file, output_file); a KeyError in the loop leaves
\* the function before anything is written
Deduplicate ==
    /\ pc = "dedup_start"
    /\ IF \E i \in 1..Len(entries) : ~(DedupKeys \subseteq DOMAIN entries[i])
       THEN /\ pc' = "crashed"
            /\ UNCHANGED deduplicated
       ELSE /\ pc' = "deduplicated"
            /\ deduplicated' \in deduplicate_taxes(entries)
    /\ UNCHANGED <<idx, entries>>
    /\ UNCHANGED <<recordVars, converterVars, leadsVars>>

NextDedup == Deduplicate

SpecDedup == InitDedup /\ [][NextDedup]_vars

----------------------------------------------------------------------------
(* Properties of deduplicate_taxes, checked under SpecDedup *)

\* the (Owner Name, Location Address) pair of an entry of the input or output
PairOf(entry) == << entry["Owner Name"], entry["Location Address"] >>

\* the warrant numbers of the input entries with this pair, in input order
WarrantsOf(pair) ==
    LET same == SelectSeq(entries, LAMBDA entry : PairOf(entry) = pair)
    IN  [i \in 1..Len(same) |-> same[i]["Warrant Number"]]

\* the sum of the recorded amounts of the input entries with this pair, in
\* thousandths of a dollar
RECURSIVE AmountsFrom(_, _)
AmountsFrom(i, pair) ==
    IF i > Len(entries) THEN 0
    ELSE (IF PairOf(entries[i]) = pair THEN entries[i][AmountKey] ELSE 0)
             + AmountsFrom(i + 1, pair)

RECURSIVE WarrantsFrom(_)
WarrantsFrom(i) ==
    IF i > Len(deduplicated) THEN 0
    ELSE deduplicated[i]["Number of Warrants"] + WarrantsFrom(i + 1)

\* C25: deduplicate_taxes combines the entries with the same (Owner Name,
\* Location Address): the output has exactly one entry for every pair that
\* occurs in the input, the Warrant Numbers of an output entry are the warrant
\* numbers of exactly the input entries with its pair, in input order, its
\* Number of Warrants is their number, and the Numbers of Warrants of the
\* output add up to the number of input entries.
C25_OneEntryPerPair ==
    pc = "deduplicated" =>
        /\ \A i \in 1..Len(entries) :
              Cardinality({j \in 1..Len(deduplicated) :
                              PairOf(deduplicated[j]) = PairOf(entries[i])}) = 1
        /\ \A j \in 1..Len(deduplicated) :
              /\ \E i \in 1..Len(entries) : PairOf(entries[i]) = PairOf(deduplicated[j])
              /\ deduplicated[j]["Warrant Numbers"] = WarrantsOf(PairOf(deduplicated[j]))
              /\ deduplicated[j]["Number of Warrants"]
                     = Len(deduplicated[j]["Warrant Numbers"])
        /\ WarrantsFrom(1) = Len(entries)

\* three entries, the first and the third of one owner and address, combined
\* into one output entry with the warrant numbers 1 and 3, the second entry
\* on its own
C25_Witness ==
    /\ pc = "deduplicated"
    /\ Len(entries) = 3
    /\ Len(deduplicated) = 2
    /\ \E j \in 1..2 : deduplicated[j]["Warrant Numbers"] = << 1, 3 >>
    /\ \E j \in 1..2 : deduplicated[j]["Warrant Numbers"] = << 2 >>

\* the output is in falling order of Total Warrant Amount
FallingTotals ==
    \A i, j \in 1..Len(deduplicated) :
        i < j => deduplicated[i]["Total Warrant Amount"]
                     >= deduplicated[j]["Total Warrant Amount"]

\* C30: the output list of deduplicate_taxes is in non-increasing order of
\* Total Warrant Amount, and the Total Warrant Amount of an entry is the sum
\* of the recorded warrant amounts of all input entries with its pair.
C30_SortedBySum ==
    pc = "deduplicated" =>
        /\ FallingTotals
        /\ \A j \in 1..Len(deduplicated) :
              10 * deduplicated[j]["Total Warrant Amount"]
                  = AmountsFrom(1, PairOf(deduplicated[j]))

\* C30, amended: the output list of deduplicate_taxes is in non-increasing
\* order of Total Warrant Amount, and the Total Warrant Amount of an entry is
\* the sum of the recorded warrant amounts of all input entries with its pair
\* rounded to the nearest cent: it is within half a cent of the sum, and it is
\* the sum when the sum is a whole number of cents.
C30_SortedByRoundedSum ==
    pc = "deduplicated" =>
        /\ FallingTotals
        /\ \A j \in 1..Len(deduplicated) :
              LET sum == AmountsFrom(1, PairOf(deduplicated[j]))
                  total == 10 * deduplicated[j]["Total Warrant Amount"]
              IN  /\ total - sum <= 5
                  /\ sum - total <= 5
                  /\ sum % 10 = 0 => total = sum

\* three entries, the largest amount last: the first and the third, of one
\* owner and address, add up to 1.255 dollars and come out first with a total
\* of 1.25, the second comes out last, its 0.005 rounded to 0.01
C30_Witness ==
    /\ pc = "deduplicated"
    /\ Len(entries) = 3
    /\ Len(deduplicated) = 2
    /\ deduplicated[1]["Warrant Numbers"] = << 1, 3 >>
    /\ entries[3][AmountKey] = 1250
    /\ AmountsFrom(1, PairOf(deduplicated[1])) = 1255
    /\ deduplicated[1]["Total Warrant Amount"] = 125
    /\ deduplicated[2]["Warrant Numbers"] = << 2 >>
    /\ deduplicated[2]["Total Warrant Amount"] = 1

====
